---- MODULE Spec2Model ----
(***************************************************************************)
(* A model of the generic RSA library (kaidokert/RSA): the modular         *)
(* arithmetic engine, the key model and the PKCS#1 v1.5 / PSS verification *)
(* paths.                                                                  *)
(*                                                                         *)
(* The library is generic over an unsigned fixed-width integer type T.     *)
(* Here a value of T is a big-endian sequence of `ty.limbs` limbs of       *)
(* `ty.limb_bits` bits each (fixed_bigint::FixedUInt<limb, N>; a primitive *)
(* integer is the one-limb case).  All arithmetic on T is done limb by     *)
(* limb, with the wrap-around of the type's width.                         *)
(***************************************************************************)
EXTENDS Integers, Sequences, FiniteSets, TLC

VARIABLES
    ty,     \* the integer type T the code is instantiated with: [limb_bits, limbs]
    build,  \* the build configuration: [overflow_checks, std]
    args,   \* the arguments of the call
    pc,     \* "start" before the call, afterwards the name of the function called
    ret     \* the outcome of the call

vars == <<ty, build, args, pc, ret>>

(***************************************************************************)
(* Bounds of the model.                                                    *)
(***************************************************************************)
\* width in bits of the one-limb integer type the arithmetic is swept over
Width == 3

(***************************************************************************)
(* Outcomes of a call.                                                     *)
(***************************************************************************)
Val(v) == [kind |-> "value", v |-> v]
Ok(v) == [kind |-> "Ok", v |-> v]
Err(e) == [kind |-> "Err", err |-> e]
Panic(why) == [kind |-> "panic", why |-> why]
NoRet == [kind |-> "none"]

(***************************************************************************)
(* The integer type T: num_traits::PrimInt + Unsigned + WrappingAdd +      *)
(* WrappingSub, on big-endian limb sequences.                              *)
(***************************************************************************)
Radix == 2 ^ ty.limb_bits
NLimbs == ty.limbs
TBits == ty.limb_bits * ty.limbs
TValues == [1..NLimbs -> 0..(Radix - 1)]

\* a limb function as a sequence
Limbs(f) == SubSeq(f, 1, NLimbs)

T_zero == Limbs([i \in 1..NLimbs |-> 0])
T_one == Limbs([i \in 1..NLimbs |-> IF i = NLimbs THEN 1 ELSE 0])

RECURSIVE CmpFrom(_, _, _)
CmpFrom(a, b, i) ==
    IF i > Len(a) THEN 0
    ELSE IF a[i] < b[i] THEN -1
    ELSE IF a[i] > b[i] THEN 1
    ELSE CmpFrom(a, b, i + 1)

Lt(a, b) == CmpFrom(a, b, 1) < 0
Gt(a, b) == CmpFrom(a, b, 1) > 0
Ge(a, b) == CmpFrom(a, b, 1) >= 0

RECURSIVE AddFrom(_, _, _, _)
AddFrom(a, b, i, carry) ==
    IF i = 0 THEN <<>>
    ELSE LET s == a[i] + b[i] + carry
         IN  Append(AddFrom(a, b, i - 1, s \div Radix), s % Radix)

\* a.wrapping_add(&b): the sum modulo 2^TBits
wrapping_add(a, b) == AddFrom(a, b, Len(a), 0)

RECURSIVE CarryFrom(_, _, _, _)
CarryFrom(a, b, i, carry) ==
    IF i = 0 THEN carry
    ELSE CarryFrom(a, b, i - 1, (a[i] + b[i] + carry) \div Radix)

\* TRUE when a + b does not fit in T
AddOverflows(a, b) == CarryFrom(a, b, Len(a), 0) = 1

RECURSIVE SubFrom(_, _, _, _)
SubFrom(a, b, i, borrow) ==
    IF i = 0 THEN <<>>
    ELSE LET d == a[i] - b[i] - borrow
         IN  Append(SubFrom(a, b, i - 1, IF d < 0 THEN 1 ELSE 0),
                    IF d < 0 THEN d + Radix ELSE d)

\* a.wrapping_sub(&b): the difference modulo 2^TBits
wrapping_sub(a, b) == SubFrom(a, b, Len(a), 0)

\* a >> 1
Shr1(a) ==
    Limbs([i \in 1..Len(a) |->
        (a[i] \div 2) + (IF i > 1 THEN (a[i - 1] % 2) * (Radix \div 2) ELSE 0)])

\* (a << 1) | bit, modulo 2^TBits
Shl1In(a, bit) ==
    Limbs([i \in 1..Len(a) |->
        ((2 * a[i]) % Radix)
          + (IF i < Len(a) THEN a[i + 1] \div (Radix \div 2) ELSE bit)])

TopBit(a) == a[1] \div (Radix \div 2)

RECURSIVE AndNat(_, _)
AndNat(x, y) ==
    IF x = 0 \/ y = 0 THEN 0
    ELSE (x % 2) * (y % 2) + 2 * AndNat(x \div 2, y \div 2)

\* a & b
BitAnd(a, b) == Limbs([i \in 1..Len(a) |-> AndNat(a[i], b[i])])

\* bit number i of a, bit 1 the most significant
BitAt(a, i) ==
    LET limb == a[((i - 1) \div ty.limb_bits) + 1]
        sh == ty.limb_bits - 1 - ((i - 1) % ty.limb_bits)
    IN  (limb \div (2 ^ sh)) % 2

\* long division of a by m (m # 0), most significant bit first:
\* one step on s = [i, q, r], where q and r are the quotient and the
\* remainder of the bits before bit i of a: takes in bit i (no change past
\* the last bit)
DivRemStep(a, m, s) ==
    IF s.i > Len(a) * ty.limb_bits THEN s
    ELSE LET r2 == Shl1In(s.r, BitAt(a, s.i))
             sub == TopBit(s.r) = 1 \/ Ge(r2, m)
         IN  [i |-> s.i + 1,
              q |-> Shl1In(s.q, IF sub THEN 1 ELSE 0),
              r |-> IF sub THEN wrapping_sub(r2, m) ELSE r2]

\* n steps of the division: the first half of them and, unless the last
\* bit is done, the rest
RECURSIVE DivRemFrom(_, _, _, _)
DivRemFrom(a, m, s, n) ==
    IF n <= 1 THEN DivRemStep(a, m, s)
    ELSE LET half == DivRemFrom(a, m, s, n \div 2)
         IN  IF half.i > Len(a) * ty.limb_bits THEN half
             ELSE DivRemFrom(a, m, half, n - (n \div 2))

\* a % m, for m # 0
rem(a, m) ==
    IF Lt(a, m) THEN a
    ELSE DivRemFrom(a, m, [i |-> 1, q |-> T_zero, r |-> T_zero], TBits).r

\* a / m, for m # 0
div(a, m) ==
    IF Lt(a, m) THEN T_zero
    ELSE DivRemFrom(a, m, [i |-> 1, q |-> T_zero, r |-> T_zero], TBits).q

\* the mathematical value of a (for types of fewer than 31 bits)
RECURSIVE ToNat(_)
ToNat(a) ==
    IF Len(a) = 0 THEN 0
    ELSE ToNat(SubSeq(a, 1, Len(a) - 1)) * Radix + a[Len(a)]

(***************************************************************************)
(* algorithms/modular/add.rs                                               *)
(***************************************************************************)
\* a variant that tests only sum >= m and misses the wrapped sum
mod_add_no_wrap_test(a, b, m) ==
    LET a_mod == rem(a, m)
        b_mod == rem(b, m)
        sum == wrapping_add(a_mod, b_mod)
    IN  IF Ge(sum, m) THEN wrapping_sub(sum, m) ELSE sum

mod_add(a, b, m) ==
    LET a_mod == rem(a, m)
        b_mod == rem(b, m)
        sum == wrapping_add(a_mod, b_mod)
    IN  IF Ge(sum, m) \/ Lt(sum, a_mod) THEN wrapping_sub(sum, m) ELSE sum

(***************************************************************************)
(* algorithms/modular/mul.rs                                               *)
(***************************************************************************)
\* one turn of the while loop on its variables s = [a, b, result]
\* (no change once b = 0)
mod_mul_step(s, m) ==
    IF ~Gt(s.b, T_zero) THEN s
    ELSE [a |-> mod_add(s.a, s.a, m),
          b |-> Shr1(s.b),
          result |-> IF BitAnd(s.b, T_one) = T_one
                     THEN mod_add(s.result, s.a, m)
                     ELSE s.result]

\* n turns of the while loop: the first half of them and, while b > 0, the
\* rest; the loop ends within TBits turns, since every turn halves b
RECURSIVE mod_mul_loop(_, _, _)
mod_mul_loop(s, m, n) ==
    IF n <= 1 THEN mod_mul_step(s, m)
    ELSE LET half == mod_mul_loop(s, m, n \div 2)
         IN  IF ~Gt(half.b, T_zero) THEN half
             ELSE mod_mul_loop(half, m, n - (n \div 2))

\* a variant that doubles a with a plain wrapping add, losing the bits
\* above the width of T
mod_mul_trunc_step(s, m) ==
    IF ~Gt(s.b, T_zero) THEN s
    ELSE [a |-> rem(wrapping_add(s.a, s.a), m),
          b |-> Shr1(s.b),
          result |-> IF BitAnd(s.b, T_one) = T_one
                     THEN rem(wrapping_add(s.result, s.a), m)
                     ELSE s.result]

RECURSIVE mod_mul_trunc_loop(_, _, _)
mod_mul_trunc_loop(s, m, n) ==
    IF n <= 1 THEN mod_mul_trunc_step(s, m)
    ELSE LET half == mod_mul_trunc_loop(s, m, n \div 2)
         IN  IF ~Gt(half.b, T_zero) THEN half
             ELSE mod_mul_trunc_loop(half, m, n - (n \div 2))

mod_mul_truncating(a, b, m) ==
    mod_mul_trunc_loop([a |-> rem(a, m), b |-> rem(b, m), result |-> T_zero],
                       m, TBits).result

mod_mul(a, b, m) ==
    mod_mul_loop([a |-> rem(a, m), b |-> rem(b, m), result |-> T_zero], m, TBits).result

(***************************************************************************)
(* algorithms/rsa/modmul.rs: the private copies used by mod_exp            *)
(***************************************************************************)
modmul_mod_add(a, b, m) ==
    LET a_mod == rem(a, m)
        b_mod == rem(b, m)
        sum == wrapping_add(a_mod, b_mod)
    IN  IF Ge(sum, m) \/ Lt(sum, a_mod) THEN wrapping_sub(sum, m) ELSE sum

\* one turn of the while loop on its variables s = [a, b, result]
\* (no change once b = 0)
modmul_mod_mul_step(s, m) ==
    IF ~Gt(s.b, T_zero) THEN s
    ELSE [a |-> modmul_mod_add(s.a, s.a, m),
          b |-> Shr1(s.b),
          result |-> IF BitAnd(s.b, T_one) = T_one
                     THEN modmul_mod_add(s.result, s.a, m)
                     ELSE s.result]

\* n turns of the while loop: the first half of them and, while b > 0, the
\* rest; the loop ends within TBits turns, since every turn halves b
RECURSIVE modmul_mod_mul_loop(_, _, _)
modmul_mod_mul_loop(s, m, n) ==
    IF n <= 1 THEN modmul_mod_mul_step(s, m)
    ELSE LET half == modmul_mod_mul_loop(s, m, n \div 2)
         IN  IF ~Gt(half.b, T_zero) THEN half
             ELSE modmul_mod_mul_loop(half, m, n - (n \div 2))

modmul_mod_mul(a, b, m) ==
    modmul_mod_mul_loop([a |-> rem(a, m), b |-> rem(b, m), result |-> T_zero], m, TBits).result

(***************************************************************************)
(* algorithms/rsa.rs                                                       *)
(***************************************************************************)
RECURSIVE mod_exp_loop(_, _, _)
mod_exp_loop(s, modulus, two) ==
    IF ~Gt(s.exp, T_zero) THEN s.result
    ELSE LET result2 == IF rem(s.exp, two) = T_one
                        THEN modmul_mod_mul(s.result, s.base, modulus)
                        ELSE s.result
             exp2 == div(s.exp, two)
             base2 == IF Gt(exp2, T_zero)
                      THEN modmul_mod_mul(s.base, s.base, modulus)
                      ELSE s.base
         IN  mod_exp_loop([base |-> base2, exp |-> exp2, result |-> result2],
                    modulus, two)

\* a variant that multiplies with the wrapping product of T and reduces after
RECURSIVE mod_exp_trunc_loop(_, _, _)
mod_exp_trunc_loop(s, modulus, two) ==
    IF ~Gt(s.exp, T_zero) THEN s.result
    ELSE LET result2 == IF rem(s.exp, two) = T_one
                        THEN mod_mul_truncating(s.result, s.base, modulus)
                        ELSE s.result
             exp2 == div(s.exp, two)
             base2 == IF Gt(exp2, T_zero)
                      THEN mod_mul_truncating(s.base, s.base, modulus)
                      ELSE s.base
         IN  mod_exp_trunc_loop([base |-> base2, exp |-> exp2, result |-> result2],
                    modulus, two)

mod_exp_truncating(base, exponent, modulus) ==
    mod_exp_trunc_loop([base |-> rem(base, modulus), exp |-> exponent, result |-> T_one],
                       modulus, wrapping_add(T_one, T_one))

\* a variant that reduces the initial result, 1 % modulus, as it reduces base
mod_exp_reducing_one(base, exponent, modulus) ==
    mod_exp_loop([base |-> rem(base, modulus), exp |-> exponent,
                  result |-> rem(T_one, modulus)],
                 modulus, wrapping_add(T_one, T_one))

mod_exp(base, exponent, modulus) ==
    mod_exp_loop([base |-> rem(base, modulus), exp |-> exponent, result |-> T_one],
                 modulus, wrapping_add(T_one, T_one))

(***************************************************************************)
(* The remainder by zero.  `x % m` on a primitive integer aborts with a    *)
(* panic when m = 0, in every build.  rem above is the remainder for       *)
(* m # 0; rem_panicking is the statement `x % m` with its abort.  Each     *)
(* function below is the body from its first statement on: the first `%`   *)
(* decides whether the call aborts, and once it has passed m # 0 and no    *)
(* later `% m` of the body or of a callee can abort.                       *)
(***************************************************************************)
DivideByZero == Panic("attempt to calculate the remainder with a divisor of zero")

rem_panicking(a, m) == IF m = T_zero THEN DivideByZero ELSE Val(rem(a, m))

\* add.rs: `let a_mod = a % m;` is the first statement
mod_add_call(a, b, m) ==
    LET a_mod == rem_panicking(a, m)
    IN  IF a_mod.kind = "panic" THEN a_mod
        ELSE Val(mod_add(a, b, m))

\* mul.rs: `a = a % m;` is the first statement, before `result` and the loop
mod_mul_call(a, b, m) ==
    LET a_mod == rem_panicking(a, m)
    IN  IF a_mod.kind = "panic" THEN a_mod
        ELSE Val(mod_mul(a, b, m))

\* rsa/modmul.rs: the same first statement in the private copy
modmul_mod_mul_call(a, b, m) ==
    LET a_mod == rem_panicking(a, m)
    IN  IF a_mod.kind = "panic" THEN a_mod
        ELSE Val(modmul_mod_mul(a, b, m))

\* a variant of mod_exp that tests the exponent before it reduces the base:
\* with exponent 0 it returns result = 1 and never evaluates `% modulus`
mod_exp_call_exponent_first(base, exponent, modulus) ==
    LET result == T_one
    IN  IF ~Gt(exponent, T_zero) THEN Val(result)
        ELSE LET reduced == rem_panicking(base, modulus)
             IN  IF reduced.kind = "panic" THEN reduced
                 ELSE Val(mod_exp(base, exponent, modulus))

\* rsa.rs: `two` and `result` are set, then `base = base % modulus;` runs,
\* before `exp` is set and before the loop tests it: the abort does not
\* depend on the exponent
mod_exp_call(base, exponent, modulus) ==
    LET result == T_one
        reduced == rem_panicking(base, modulus)
    IN  IF reduced.kind = "panic" THEN reduced
        ELSE Val(mod_exp(base, exponent, modulus))

(***************************************************************************)
(* The modular arithmetic engine: one call of one function on arguments    *)
(* of a small integer type.                                                *)
(***************************************************************************)
\* a one-limb type of Width bits and a two-limb type of 2-bit limbs
SmallTypes == {[limb_bits |-> Width, limbs |-> 1], [limb_bits |-> 2, limbs |-> 2]}
DefaultBuild == [overflow_checks |-> FALSE, std |-> FALSE]

InitModular ==
    /\ ty \in SmallTypes
    /\ build = DefaultBuild
    /\ args \in [a : TValues, b : TValues, m : TValues]
    /\ pc = "start"
    /\ ret = NoRet

ModAdd ==
    /\ pc = "start"
    /\ pc' = "mod_add"
    /\ ret' = mod_add_call(args.a, args.b, args.m)
    /\ UNCHANGED <<ty, build, args>>

ModMul ==
    /\ pc = "start"
    /\ pc' = "mod_mul"
    /\ ret' = mod_mul_call(args.a, args.b, args.m)
    /\ UNCHANGED <<ty, build, args>>

ModmulModMul ==
    /\ pc = "start"
    /\ pc' = "modmul_mod_mul"
    /\ ret' = modmul_mod_mul_call(args.a, args.b, args.m)
    /\ UNCHANGED <<ty, build, args>>

\* mod_exp(base = a, exponent = b, modulus = m)
ModExp ==
    /\ pc = "start"
    /\ pc' = "mod_exp"
    /\ ret' = mod_exp_call(args.a, args.b, args.m)
    /\ UNCHANGED <<ty, build, args>>

NextModular == ModAdd \/ ModMul \/ ModmulModMul \/ ModExp

SpecModular == InitModular /\ [][NextModular]_vars

(***************************************************************************)
(* Reference arithmetic on exact integers.                                 *)
(***************************************************************************)
\* a^e mod m by the definition of the power: a^0 = 1, a^e = a * a^(e-1)
RECURSIVE PowMod(_, _, _)
PowMod(a, e, m) == IF e = 0 THEN 1 % m ELSE (a * PowMod(a, e - 1, m)) % m

TModulus == 2 ^ TBits

\* C3: for m > 0, mod_add(a, b, m) returns r < m with r = (a + b) mod m, the
\* sum taken on exact integers, also when the sum of the reduced operands
\* wraps modulo 2^w.
C3_ModAddCorrect ==
    (pc = "mod_add" /\ args.m # T_zero) =>
        /\ ret.kind = "value"
        /\ ToNat(ret.v) < ToNat(args.m)
        /\ ToNat(ret.v) = (ToNat(args.a) + ToNat(args.b)) % ToNat(args.m)

C3_Witness ==
    /\ pc = "mod_add"
    /\ args.m # T_zero
    /\ (ToNat(args.a) % ToNat(args.m)) + (ToNat(args.b) % ToNat(args.m)) >= TModulus
    /\ ret.kind = "value"
    /\ ToNat(ret.v) = (ToNat(args.a) + ToNat(args.b)) % ToNat(args.m)

\* C2: for m > 0, both copies of mod_mul return (a * b) mod m, the product
\* taken on exact integers, also when a * b does not fit in T.
C2_ModMulCorrect ==
    (pc \in {"mod_mul", "modmul_mod_mul"} /\ args.m # T_zero) =>
        /\ ret.kind = "value"
        /\ ToNat(ret.v) = (ToNat(args.a) * ToNat(args.b)) % ToNat(args.m)

C2_Witness ==
    /\ pc = "mod_mul"
    /\ args.m # T_zero
    /\ ToNat(args.a) < ToNat(args.m)
    /\ ToNat(args.b) < ToNat(args.m)
    /\ ToNat(args.a) * ToNat(args.b) >= TModulus
    /\ ret.kind = "value"
    /\ ToNat(ret.v) = (ToNat(args.a) * ToNat(args.b)) % ToNat(args.m)

\* C1: for m > 0, mod_exp(a, e, m) is congruent to a^e modulo m, a^e the
\* exact integer power; intermediate products wider than T are not truncated.
C1_ModExpCongruent ==
    (pc = "mod_exp" /\ args.m # T_zero) =>
        /\ ret.kind = "value"
        /\ ToNat(ret.v) % ToNat(args.m)
             = PowMod(ToNat(args.a), ToNat(args.b), ToNat(args.m))

C1_Witness ==
    /\ pc = "mod_exp"
    /\ args.m # T_zero
    /\ ToNat(args.b) >= 2
    /\ ToNat(args.a) < ToNat(args.m)
    /\ ToNat(args.a) * ToNat(args.a) >= TModulus
    /\ ret.kind = "value"
    /\ ToNat(ret.v) = PowMod(ToNat(args.a), ToNat(args.b), ToNat(args.m))

(***************************************************************************)
(* traits/modular.rs, traits/keys.rs                                       *)
(***************************************************************************)
\* one turn of the while loop on its variables s = [value, count]
\* (no change once value = 0)
bits_step(s) ==
    IF s.value = T_zero THEN s
    ELSE [value |-> Shr1(s.value), count |-> s.count + 1]

\* n turns of the while loop: the first half of them and, while
\* value != 0, the rest; the loop ends within TBits turns, since every turn
\* halves value
RECURSIVE bits_loop(_, _)
bits_loop(s, n) ==
    IF n <= 1 THEN bits_step(s)
    ELSE LET half == bits_loop(s, n \div 2)
         IN  IF half.value = T_zero THEN half
             ELSE bits_loop(half, n - (n \div 2))

\* UnsignedModularInt::bits
bits(x) == bits_loop([value |-> x, count |-> 0], TBits).count

\* UnsignedModularInt::is_even
is_even(x) == BitAnd(x, T_one) = T_zero

\* PublicKeyParts::size: the modulus size in bytes
size(n) == (bits(n) + 7) \div 8

(***************************************************************************)
(* key.rs: the public key and its checks                                   *)
(***************************************************************************)
\* the value of T whose low nbits bits are one (T::MAX when T is narrower)
LowOnes(nbits) ==
    [i \in 1..NLimbs |->
        LET lo == (NLimbs - i) * ty.limb_bits
        IN  IF nbits <= lo THEN 0
            ELSE IF nbits >= lo + ty.limb_bits THEN Radix - 1
            ELSE 2 ^ (nbits - lo) - 1]

\* the value of T that holds the small number x (x < 2^30; the bits of x
\* above the width of T are dropped)
FromSmall(x) ==
    [i \in 1..NLimbs |->
        LET lo == (NLimbs - i) * ty.limb_bits
        IN  IF lo > 30 THEN 0 ELSE (x \div (2 ^ lo)) % Radix]

MIN_PUB_EXPONENT == 2
\* (1 << 33) - 1
MAX_PUB_EXPONENT == LowOnes(33)
MAX_SIZE == 4096

\* ToPrimitive::to_u64 is Some exactly when no bit above the low 64 is set;
\* the u64 is then compared in the representation of T
to_u64_is_some(x) == \A i \in 1..(TBits - 64) : BitAt(x, i) = 0

\* a variant that forgets to reject an even modulus
check_public_no_parity(n, e, max_size) ==
    IF bits(n) > max_size THEN Err("ModulusTooLarge")
    ELSE IF ~to_u64_is_some(e) THEN Err("PublicExponentTooLarge")
    ELSE IF Ge(e, n) THEN Err("InvalidModulus")
    ELSE IF is_even(e) THEN Err("InvalidExponent")
    ELSE IF Lt(e, FromSmall(MIN_PUB_EXPONENT)) THEN Err("PublicExponentTooSmall")
    ELSE IF Gt(e, MAX_PUB_EXPONENT) THEN Err("PublicExponentTooLarge")
    ELSE Ok(<<>>)

\* a variant that tests the range of the exponent before its parity
check_public_range_first(n, e, max_size) ==
    IF bits(n) > max_size THEN Err("ModulusTooLarge")
    ELSE IF ~to_u64_is_some(e) THEN Err("PublicExponentTooLarge")
    ELSE IF Ge(e, n) \/ is_even(n) THEN Err("InvalidModulus")
    ELSE IF Lt(e, FromSmall(MIN_PUB_EXPONENT)) THEN Err("PublicExponentTooSmall")
    ELSE IF Gt(e, MAX_PUB_EXPONENT) THEN Err("PublicExponentTooLarge")
    ELSE IF is_even(e) THEN Err("InvalidExponent")
    ELSE Ok(<<>>)

check_public_with_max_size(n, e, max_size) ==
    IF bits(n) > max_size THEN Err("ModulusTooLarge")
    ELSE IF ~to_u64_is_some(e) THEN Err("PublicExponentTooLarge")
    ELSE IF Ge(e, n) \/ is_even(n) THEN Err("InvalidModulus")
    ELSE IF is_even(e) THEN Err("InvalidExponent")
    ELSE IF Lt(e, FromSmall(MIN_PUB_EXPONENT)) THEN Err("PublicExponentTooSmall")
    ELSE IF Gt(e, MAX_PUB_EXPONENT) THEN Err("PublicExponentTooLarge")
    ELSE Ok(<<>>)

check_public(n, e) == check_public_with_max_size(n, e, MAX_SIZE)

\* RsaPublicKey::new_with_max_size
new_with_max_size(n, e, max_size) ==
    LET k == [n |-> n, e |-> e]
        checked == check_public_with_max_size(k.n, k.e, max_size)
    IN  IF checked.kind = "Err" THEN checked ELSE Ok(k)

\* RsaPublicKey::new
new(n, e) == new_with_max_size(n, e, MAX_SIZE)

\* RsaPublicKey::new_unchecked
new_unchecked(n, e) == [n |-> n, e |-> e]

(***************************************************************************)
(* The public-key constructors, on an integer type wider than 64 bits.     *)
(***************************************************************************)
\* limbs of the byte-limbed integer type of the keys handed to the
\* constructors (wider than u64, so that to_u64 can fail)
KeyLimbs == 9

KeyType == [limb_bits |-> 8, limbs |-> KeyLimbs]

\* h * Radix^p + l
Sparse(p, h, l) ==
    [i \in 1..NLimbs |->
        IF i = NLimbs THEN l ELSE IF i = NLimbs - p THEN h ELSE 0]

\* the values tried for n and e: small ones, ones with one high byte set,
\* and the neighbours of the bounds of the exponent
KeyValues ==
    {Sparse(p, h, l) : p \in 1..(NLimbs - 1), h \in {0, 1, 2}, l \in {0, 1, 2, 3}}
      \cup {LowOnes(33), wrapping_sub(LowOnes(33), FromSmall(2)), LowOnes(64)}

MaxSizes == {8, 64, MAX_SIZE}

InitPublicKey ==
    /\ ty = KeyType
    /\ build = DefaultBuild
    /\ args \in [n : KeyValues, e : KeyValues, max_size : MaxSizes]
    /\ pc = "start"
    /\ ret = NoRet

New ==
    /\ pc = "start"
    /\ args.max_size = MAX_SIZE
    /\ pc' = "new"
    /\ ret' = new(args.n, args.e)
    /\ UNCHANGED <<ty, build, args>>

NewWithMaxSize ==
    /\ pc = "start"
    /\ pc' = "new_with_max_size"
    /\ ret' = new_with_max_size(args.n, args.e, args.max_size)
    /\ UNCHANGED <<ty, build, args>>

NewUnchecked ==
    /\ pc = "start"
    /\ pc' = "new_unchecked"
    /\ ret' = Val(new_unchecked(args.n, args.e))
    /\ UNCHANGED <<ty, build, args>>

NextPublicKey == New \/ NewWithMaxSize \/ NewUnchecked

SpecPublicKey == InitPublicKey /\ [][NextPublicKey]_vars

(***************************************************************************)
(* The invariants of a public key, stated on the bits of n and e.          *)
(***************************************************************************)
\* bit number j of x, bit 0 the least significant
BitNo(x, j) == BitAt(x, TBits - j)
IsOdd(x) == BitNo(x, 0) = 1
\* index of the highest set bit plus one, 0 for zero
BitLength(x) ==
    IF \A j \in 0..(TBits - 1) : BitNo(x, j) = 0 THEN 0
    ELSE 1 + CHOOSE j \in 0..(TBits - 1) :
                 /\ BitNo(x, j) = 1
                 /\ \A h \in (j + 1)..(TBits - 1) : BitNo(x, h) = 0
\* x >= 2: a bit other than bit 0 is set
AtLeastTwo(x) == \E j \in 1..(TBits - 1) : BitNo(x, j) = 1
\* x <= 2^nbits - 1: no bit from nbits up is set
Below2Pow(x, nbits) == \A j \in nbits..(TBits - 1) : BitNo(x, j) = 0
\* x < y: at the highest bit where they differ, y has the one
Less(x, y) ==
    \E j \in 0..(TBits - 1) :
        /\ BitNo(x, j) = 0
        /\ BitNo(y, j) = 1
        /\ \A h \in (j + 1)..(TBits - 1) : BitNo(x, h) = BitNo(y, h)

PublicKeyInvariants(n, e, max_bits) ==
    /\ IsOdd(n)
    /\ IsOdd(e)
    /\ AtLeastTwo(e)
    /\ Below2Pow(e, 33)
    /\ Less(e, n)
    /\ BitLength(n) <= max_bits

CheckedConstructor == pc \in {"new", "new_with_max_size"}

\* C7: the checked constructors return Ok exactly when n is odd, e is odd,
\* 2 <= e <= 2^33 - 1, e < n and bits(n) <= max_bits, and the key returned
\* holds the given n and e.
C7_CheckedConstructor ==
    CheckedConstructor =>
        /\ ret.kind \in {"Ok", "Err"}
        /\ ret.kind = "Ok" <=> PublicKeyInvariants(args.n, args.e, args.max_size)
        /\ ret.kind = "Ok" => ret.v = [n |-> args.n, e |-> args.e]

C7_Witness ==
    /\ pc = "new_with_max_size"
    /\ ret.kind = "Ok"
    /\ ret.v.e = LowOnes(33)
    /\ PublicKeyInvariants(ret.v.n, ret.v.e, args.max_size)

\* the error of the first failing check, in the order of the claim
FirstFailingCheck(n, e, max_bits) ==
    IF BitLength(n) > max_bits THEN "ModulusTooLarge"
    ELSE IF ~Below2Pow(e, 64) THEN "PublicExponentTooLarge"
    ELSE IF ~Less(e, n) \/ ~IsOdd(n) THEN "InvalidModulus"
    ELSE IF ~IsOdd(e) THEN "InvalidExponent"
    ELSE IF ~AtLeastTwo(e) THEN "PublicExponentTooSmall"
    ELSE IF ~Below2Pow(e, 33) THEN "PublicExponentTooLarge"
    ELSE "none"

\* C8: a rejected (n, e) is reported with the error of the first failing
\* check in the order ModulusTooLarge, PublicExponentTooLarge (e not a u64),
\* InvalidModulus (e >= n or n even), InvalidExponent (e even),
\* PublicExponentTooSmall (e < 2), PublicExponentTooLarge (e > 2^33 - 1);
\* so, the modulus not being too large, e = 0 is reported as InvalidExponent
\* or InvalidModulus, and PublicExponentTooSmall is returned only for e = 1.
C8_ErrorOrder ==
    (CheckedConstructor /\ ret.kind = "Err") =>
        /\ ret.err = FirstFailingCheck(args.n, args.e, args.max_size)
        /\ (args.e = T_zero /\ BitLength(args.n) <= args.max_size)
              => ret.err \in {"InvalidExponent", "InvalidModulus"}
        /\ ret.err = "PublicExponentTooSmall" => args.e = T_one

C8_Witness ==
    /\ pc = "new_with_max_size"
    /\ ret = Err("InvalidExponent")
    /\ args.e = T_zero

C8_WitnessTooSmall ==
    /\ pc = "new_with_max_size"
    /\ ret = Err("PublicExponentTooSmall")
    /\ args.e = T_one

(***************************************************************************)
(* subtle: constant-time equality, a Choice is 0 or 1                      *)
(***************************************************************************)
\* u8::ct_eq
ct_eq(x, y) == IF x = y THEN 1 ELSE 0

\* Choice & Choice
ChoiceAnd(x, y) == AndNat(x, y)

RECURSIVE ct_eq_from(_, _, _, _)
ct_eq_from(x, y, i, acc) ==
    IF i > Len(x) THEN acc
    ELSE ct_eq_from(x, y, i + 1, ChoiceAnd(acc, ct_eq(x[i], y[i])))

\* <[u8]>::ct_eq: 0 for slices of different lengths, else every byte is
\* compared and the results are folded
ct_eq_slice(x, y) == IF Len(x) # Len(y) THEN 0 ELSE ct_eq_from(x, y, 1, 1)

\* the slice s[from..to] of Rust (0-based, `to` excluded)
Slice(s, from, to) == SubSeq(s, from + 1, to)

(***************************************************************************)
(* algorithms/pkcs1v15.rs                                                  *)
(***************************************************************************)
\* the loop over em.iter().skip(2).take(n): every byte is compared with 0xff
RECURSIVE sign_unpad_ff_loop(_, _, _, _)
sign_unpad_ff_loop(em, i, n, ok) ==
    IF n = 0 \/ i > Len(em) THEN ok
    ELSE sign_unpad_ff_loop(em, i + 1, n - 1, ChoiceAnd(ok, ct_eq(em[i], 255)))

\* with the feature "std" the bytes em[0] and em[1] are printed before the
\* length check; an index at or past the end of a slice panics
pkcs1v15_sign_unpad(prefix, hashed, em, k) ==
    LET hash_len == Len(hashed)
        t_len == Len(prefix) + Len(hashed)
    IN  IF build.std /\ Len(em) < 2
        THEN Panic("index out of bounds")
        ELSE IF k < t_len + 11 THEN Err("Verification")
        ELSE IF Len(em) < k THEN Panic("index out of bounds")
        ELSE LET ok1 == ct_eq(em[1], 0)
                 ok2 == ChoiceAnd(ok1, ct_eq(em[2], 1))
                 ok3 == ChoiceAnd(ok2, ct_eq_slice(Slice(em, k - hash_len, k), hashed))
                 ok4 == ChoiceAnd(ok3,
                            ct_eq_slice(Slice(em, k - t_len, k - hash_len), prefix))
                 ok5 == ChoiceAnd(ok4, ct_eq(em[k - t_len], 0))
                 ok6 == sign_unpad_ff_loop(em, 3, k - t_len - 3, ok5)
             IN  IF ok6 # 1 THEN Err("Verification") ELSE Ok(<<>>)

(***************************************************************************)
(* pkcs1v15_sign_unpad on encoded messages of length k.                    *)
(***************************************************************************)
\* the largest modulus size in bytes handed to pkcs1v15_sign_unpad
MaxK == 14

Prefixes == {<<>>, <<48>>}
Digests == {<<171>>, <<171, 205>>}
PerturbBytes == {0, 1, 255}

\* 0x00 || 0x01 || 0xFF.. || 0x00 || prefix || hashed laid out on k bytes
\* (for k < t_len + 3 the fields overlap and the earlier one wins)
EmLayout(prefix, hashed, k) ==
    LET t == prefix \o hashed
    IN  [i \in 1..k |->
            IF i = 1 THEN 0
            ELSE IF i = 2 THEN 1
            ELSE IF i > k - Len(t) THEN t[i - (k - Len(t))]
            ELSE IF i = k - Len(t) THEN 0
            ELSE 255]

\* an encoded message with the bytes at i and j replaced
TwoBytesSet(em, i, x, j, y) ==
    [h \in 1..Len(em) |-> IF h = j THEN y ELSE IF h = i THEN x ELSE em[h]]

EncodedMessages(prefix, hashed, k) ==
    {EmLayout(prefix, hashed, k)}
      \cup {TwoBytesSet(EmLayout(prefix, hashed, k), i, x, j, y) :
              i \in 1..k, j \in 1..k, x \in PerturbBytes, y \in PerturbBytes}

InitUnpad ==
    /\ ty = [limb_bits |-> 8, limbs |-> 1]
    /\ build \in {[overflow_checks |-> FALSE, std |-> s] : s \in BOOLEAN}
    /\ \E k \in 0..MaxK, prefix \in Prefixes, hashed \in Digests :
          \E em \in EncodedMessages(prefix, hashed, k) :
              args = [prefix |-> prefix, hashed |-> hashed, em |-> em, k |-> k]
    /\ pc = "start"
    /\ ret = NoRet

SignUnpad ==
    /\ pc = "start"
    /\ pc' = "pkcs1v15_sign_unpad"
    /\ ret' = pkcs1v15_sign_unpad(args.prefix, args.hashed, args.em, args.k)
    /\ UNCHANGED <<ty, build, args>>

NextUnpad == SignUnpad

SpecUnpad == InitUnpad /\ [][NextUnpad]_vars

\* EM = 0x00 || 0x01 || PS || 0x00 || prefix || hashed, PS of at least
\* eight bytes 0xFF
WellFormedEm(prefix, hashed, em, k) ==
    LET t_len == Len(prefix) + Len(hashed)
    IN  /\ k >= t_len + 11
        /\ Len(em) = k
        /\ em = <<0, 1>> \o [i \in 1..(k - t_len - 3) |-> 255]
                  \o <<0>> \o prefix \o hashed

\* C4: for EM of length k, pkcs1v15_sign_unpad returns Ok(()) exactly when
\* k >= prefix.len() + hashed.len() + 11 and EM = 0x00 || 0x01 || 0xFF.. ||
\* 0x00 || prefix || hashed; in every other case it returns Err(Verification).
C4_SignUnpadExact ==
    pc = "pkcs1v15_sign_unpad" =>
        /\ ret = Ok(<<>>) <=> WellFormedEm(args.prefix, args.hashed, args.em, args.k)
        /\ ret # Ok(<<>>) => ret = Err("Verification")

\* the same without the feature "std", or for EM of two bytes or more
C4_SignUnpadExactNoStd ==
    (pc = "pkcs1v15_sign_unpad" /\ (~build.std \/ args.k >= 2)) =>
        /\ ret = Ok(<<>>) <=> WellFormedEm(args.prefix, args.hashed, args.em, args.k)
        /\ ret # Ok(<<>>) => ret = Err("Verification")

(***************************************************************************)
(* algorithms/pad.rs                                                       *)
(***************************************************************************)
\* ToBytes::to_be_bytes: all size_of::<T>() bytes of x, most significant first
to_be_bytes(x) ==
    LET per == ty.limb_bits \div 8
    IN  [j \in 1..(Len(x) * per) |->
            (x[((j - 1) \div per) + 1] \div (256 ^ (per - 1 - ((j - 1) % per)))) % 256]

\* left_pad: the outcome and the storage it leaves
left_pad(input, padded_len, storage) ==
    IF Len(input) > padded_len
    THEN [res |-> Err("InvalidPadLen"), storage |-> storage]
    ELSE IF Len(storage) < padded_len
    THEN [res |-> Err("OutputBufferTooSmall"), storage |-> storage]
    ELSE LET start == padded_len - Len(input)
             written == [i \in 1..Len(storage) |->
                            IF i <= start THEN 0
                            ELSE IF i <= start + Len(input) THEN input[i - start]
                            ELSE storage[i]]
         IN  [res |-> Ok(SubSeq(written, 1, padded_len)), storage |-> written]

uint_to_be_pad(input, padded_len, storage) ==
    left_pad(to_be_bytes(input), padded_len, storage)

(***************************************************************************)
(* pkcs1v15.rs, algorithms/rsa.rs: signature verification                  *)
(***************************************************************************)
\* rsa_encrypt: the outcome of mod_exp(m, e, n), m^e mod n or, for n = 0, the
\* abort of `base % modulus`
rsa_encrypt(key, m) == mod_exp_call(m, key.e, key.n)

\* let mut storage = [0u8; 1024]
VERIFY_STORAGE_LEN == 1024

\* pkcs1v15::verify
verify(pub_key, prefix, hashed, sig, sig_len) ==
    IF Ge(sig, pub_key.n) \/ sig_len # size(pub_key.n)
    THEN Err("Verification")
    ELSE LET encr == rsa_encrypt(pub_key, sig)
         IN  IF encr.kind = "panic" THEN encr
             ELSE LET storage == [i \in 1..VERIFY_STORAGE_LEN |-> 0]
                      em == uint_to_be_pad(encr.v, size(pub_key.n), storage).res
                  IN  IF em.kind = "Err" THEN em
                      ELSE pkcs1v15_sign_unpad(prefix, hashed, em.v, size(pub_key.n))

(***************************************************************************)
(* The digest D (an external type parameter): a one-byte digest stands for *)
(* it.  MGF1 (algorithms/mgf.rs) follows its description in the            *)
(* specification.                                                          *)
(***************************************************************************)
\* <D as Digest>::output_size()
Digest_output_size == 1

RECURSIVE DigestFrom(_, _, _)
DigestFrom(bytes, i, acc) ==
    IF i > Len(bytes) THEN acc
    ELSE DigestFrom(bytes, i + 1, (acc * 31 + bytes[i] + 1) % 251)

\* the digest of everything passed to update() since new() or the last reset
Digest_finalize(bytes) == <<DigestFrom(bytes, 1, 17)>>

RECURSIVE XorNat(_, _)
XorNat(x, y) ==
    IF x = 0 THEN y
    ELSE IF y = 0 THEN x
    ELSE ((x + y) % 2) + 2 * XorNat(x \div 2, y \div 2)

\* the 4-byte big-endian counter
counter_be32(c) ==
    <<(c \div 16777216) % 256, (c \div 65536) % 256, (c \div 256) % 256, c % 256>>

\* mgf1_xor_digest: out XOR the stream Hash(seed || counter_be32(0)) ||
\* Hash(seed || counter_be32(1)) || ...
mgf1_xor_digest(out, seed) ==
    [j \in 1..Len(out) |->
        XorNat(out[j],
               Digest_finalize(seed \o counter_be32((j - 1) \div Digest_output_size))
                   [((j - 1) % Digest_output_size) + 1])]

(***************************************************************************)
(* algorithms/pss.rs, pss.rs: PSS verification                             *)
(***************************************************************************)
\* 0xFF_u8.checked_shl(8 - (8 * em_len - em_bits) as u32).unwrap_or(0):
\* the subtractions are usize / u32 arithmetic, which aborts with overflow
\* checks and wraps without (and then the shift is out of range: None)
pss_top_mask(em_len, em_bits) ==
    LET d == 8 * em_len - em_bits
    IN  IF d < 0 \/ d > 8
        THEN IF build.overflow_checks
             THEN Panic("attempt to subtract with overflow")
             ELSE Val(0)
        ELSE IF d = 0 THEN Val(0)
        ELSE Val((255 * (2 ^ (8 - d))) % 256)

emsa_pss_verify_pre(m_hash, em, em_bits, s_len, h_len) ==
    LET em_len == Len(em)
    IN  IF Len(m_hash) # h_len THEN Err("Verification")
        ELSE IF em_len < h_len + s_len + 2 THEN Err("Verification")
        ELSE IF em[em_len] # 188 THEN Err("Verification")
        ELSE LET db == SubSeq(em, 1, em_len - h_len - 1)
                 h == SubSeq(em, em_len - h_len, em_len - 1)
                 mask == pss_top_mask(em_len, em_bits)
             IN  IF mask.kind = "panic" THEN mask
                 ELSE IF AndNat(db[1], mask.v) # 0 THEN Err("Verification")
                 ELSE Ok([db |-> db, h |-> h])

RECURSIVE all_zero_from(_, _, _)
all_zero_from(bytes, i, valid) ==
    IF i > Len(bytes) THEN valid
    ELSE all_zero_from(bytes, i + 1, ChoiceAnd(valid, ct_eq(bytes[i], 0)))

emsa_pss_verify_salt(db, em_len, s_len, h_len) ==
    LET zeroes == SubSeq(db, 1, em_len - h_len - s_len - 2)
        rest == SubSeq(db, em_len - h_len - s_len - 1, Len(db))
    IN  ChoiceAnd(all_zero_from(zeroes, 1, 1), ct_eq(rest[1], 1))

\* a variant that checks the whole key_len-byte message, leading byte included
emsa_pss_verify_digest_unskipped(m_hash, em_in, s_len, key_bits) ==
    LET em_bits == key_bits - 1
        em_len == (em_bits + 7) \div 8
        key_len == (key_bits + 7) \div 8
        h_len == Digest_output_size
    IN  IF key_len - em_len > Len(em_in)
        THEN Panic("range start index out of range for slice")
        ELSE LET em == em_in
             IN  IF build.std /\ Len(em) < 2 THEN Panic("index out of bounds")
                 ELSE LET pre == emsa_pss_verify_pre(m_hash, em, em_bits, s_len, h_len)
                      IN  IF pre.kind # "Ok" THEN pre
                          ELSE IF em_len - h_len - s_len - 2 < 0
                                  \/ em_len - h_len - s_len - 2 >= Len(pre.v.db)
                          THEN Panic("split_at / index out of bounds")
                          ELSE LET h == pre.v.h
                                   unmasked == mgf1_xor_digest(pre.v.db, h)
                                   db == [unmasked EXCEPT
                                            ![1] = AndNat(@, 255 \div (2 ^ (8 * em_len - em_bits)))]
                                   salt_valid == emsa_pss_verify_salt(db, em_len, s_len, h_len)
                                   salt == SubSeq(db, Len(db) - s_len + 1, Len(db))
                                   h0 == Digest_finalize(
                                            <<0, 0, 0, 0, 0, 0, 0, 0>> \o m_hash \o salt)
                               IN  IF ChoiceAnd(salt_valid, ct_eq_slice(h0, h)) = 1
                                   THEN Ok(<<>>)
                                   ELSE Err("Verification")

\* emsa_pss_verify_digest, for key_bits >= 1
emsa_pss_verify_digest(m_hash, em_in, s_len, key_bits) ==
    LET em_bits == key_bits - 1
        em_len == (em_bits + 7) \div 8
        key_len == (key_bits + 7) \div 8
        h_len == Digest_output_size
    IN  IF key_len - em_len > Len(em_in)
        THEN Panic("range start index out of range for slice")
        ELSE LET em == SubSeq(em_in, key_len - em_len + 1, Len(em_in))
             IN  IF build.std /\ Len(em) < 2 THEN Panic("index out of bounds")
                 ELSE LET pre == emsa_pss_verify_pre(m_hash, em, em_bits, s_len, h_len)
                      IN  IF pre.kind # "Ok" THEN pre
                          ELSE IF em_len - h_len - s_len - 2 < 0
                                  \/ em_len - h_len - s_len - 2 >= Len(pre.v.db)
                          THEN Panic("split_at / index out of bounds")
                          ELSE LET h == pre.v.h
                                   unmasked == mgf1_xor_digest(pre.v.db, h)
                                   db == [unmasked EXCEPT
                                            ![1] = AndNat(@, 255 \div (2 ^ (8 * em_len - em_bits)))]
                                   salt_valid == emsa_pss_verify_salt(db, em_len, s_len, h_len)
                                   salt == SubSeq(db, Len(db) - s_len + 1, Len(db))
                                   h0 == Digest_finalize(
                                            <<0, 0, 0, 0, 0, 0, 0, 0>> \o m_hash \o salt)
                               IN  IF ChoiceAnd(salt_valid, ct_eq_slice(h0, h)) = 1
                                   THEN Ok(<<>>)
                                   ELSE Err("Verification")

\* pss::verify_digest
verify_digest(pub_key, hashed, sig, sig_len, salt_len) ==
    IF Ge(sig, pub_key.n) \/ sig_len # size(pub_key.n)
    THEN Err("Verification")
    ELSE LET encr == rsa_encrypt(pub_key, sig)
         IN  IF encr.kind = "panic" THEN encr
             ELSE LET storage == to_be_bytes(sig)
                      em == uint_to_be_pad(encr.v, size(pub_key.n), storage)
                  IN  IF em.res.kind = "Err" THEN em.res
                      ELSE IF Len(em.res.v) > Len(em.storage)
                      THEN Err("OutputBufferTooSmall")
                      ELSE emsa_pss_verify_digest(hashed,
                                                  SubSeq(em.storage, 1, Len(em.res.v)),
                                                  salt_len, bits(pub_key.n))

(***************************************************************************)
(* Signature verification with a 104-bit modulus, on the integer type of   *)
(* exactly the modulus size and on a type one byte wider.                  *)
(***************************************************************************)
\* n = 2541688901005367 * 4348681506255599, 13 bytes
SampleModulus == <<139, 130, 39, 154, 127, 48, 145, 207, 187, 127, 191, 65, 89>>

\* the cube roots modulo n of 0x00 01 FF.. 00 || prefix || hashed for
\* (<<>>, <<171>>), (<<48>>, <<171>>) and (<<>>, <<171, 205>>)
SampleSignatures ==
    { <<6, 83, 232, 220, 59, 65, 195, 124, 64, 209, 242, 243, 13>>,
      <<139, 109, 237, 170, 65, 246, 176, 144, 162, 114, 207, 19, 243>>,
      <<137, 246, 189, 115, 2, 50, 220, 105, 247, 252, 140, 67, 236>> }

\* the PSS encodings of the digest <<171>> with the salts <<>> and <<5>>
\* (emLen = 13, emBits = 103), and their cube roots modulo n
SamplePssEncodings ==
    { <<113, 242, 243, 244, 245, 246, 247, 248, 249, 250, 1, 114, 188>>,
      <<49, 178, 179, 180, 181, 182, 183, 184, 185, 187, 190, 26, 188>> }

SamplePssSignatures ==
    { <<54, 91, 10, 216, 156, 164, 177, 161, 167, 143, 18, 243, 84>>,
      <<36, 222, 168, 142, 119, 237, 72, 163, 187, 134, 22, 72, 200>> }

VerifyTypes == {[limb_bits |-> 8, limbs |-> 13], [limb_bits |-> 8, limbs |-> 14]}

\* a 13-byte number as a value of T
Widen(x) ==
    Limbs([i \in 1..NLimbs |->
              IF i <= NLimbs - Len(x) THEN 0 ELSE x[i - (NLimbs - Len(x))]])

\* signatures tried: the cube roots (for e = 3), the encoded messages
\* themselves (for e = 1), encodings with a changed last byte or a changed
\* separator, zero, and n itself
SignatureValues ==
    {Widen(x) : x \in SampleSignatures \cup SamplePssEncodings \cup SamplePssSignatures}
      \cup {Widen(EmLayout(p, h, 13)) : p \in Prefixes, h \in Digests}
      \cup {Widen(TwoBytesSet(EmLayout(<<>>, <<171>>, 13), 13, 170, 13, 170)),
            Widen(<<113, 242, 243, 244, 245, 246, 247, 248, 249, 250, 1, 114, 189>>),
            Widen(<<113, 242, 243, 244, 245, 246, 247, 248, 249, 250, 0, 114, 188>>),
            T_zero, Widen(SampleModulus)}

InitVerify ==
    /\ ty \in VerifyTypes
    /\ build = DefaultBuild
    /\ \E e \in {1, 3}, prefix \in Prefixes, hashed \in Digests,
          sig \in SignatureValues, sig_len \in {12, 13}, salt_len \in {0, 1} :
          args = [pub_key |-> new_unchecked(Widen(SampleModulus), FromSmall(e)),
                  prefix |-> prefix, hashed |-> hashed,
                  sig |-> sig, sig_len |-> sig_len, salt_len |-> salt_len]
    /\ pc = "start"
    /\ ret = NoRet

Verify ==
    /\ pc = "start"
    /\ pc' = "verify"
    /\ ret' = verify(args.pub_key, args.prefix, args.hashed, args.sig, args.sig_len)
    /\ UNCHANGED <<ty, build, args>>

VerifyDigest ==
    /\ pc = "start"
    /\ pc' = "verify_digest"
    /\ ret' = verify_digest(args.pub_key, args.hashed, args.sig, args.sig_len,
                            args.salt_len)
    /\ UNCHANGED <<ty, build, args>>

NextVerify == Verify \/ VerifyDigest

SpecVerify == InitVerify /\ [][NextVerify]_vars

\* the k-byte big-endian encoding of x, left-padded with zero bytes
\* (the empty sequence when x does not fit in k bytes)
BigEndianPadded(x, k) ==
    LET b == to_be_bytes(x)
    IN  IF k >= Len(b) THEN [i \in 1..(k - Len(b)) |-> 0] \o b
        ELSE IF \A i \in 1..(Len(b) - k) : b[i] = 0
             THEN SubSeq(b, Len(b) - k + 1, Len(b))
             ELSE <<>>

ValidSignature(pub_key, prefix, hashed, sig, sig_len) ==
    /\ Lt(sig, pub_key.n)
    /\ sig_len = size(pub_key.n)
    /\ WellFormedEm(prefix, hashed,
                    BigEndianPadded(mod_exp(sig, pub_key.e, pub_key.n), size(pub_key.n)),
                    size(pub_key.n))

\* C5: verify returns Ok(()) exactly when sig < n, sig_len = k = size() and
\* the k-byte big-endian left-zero-padded encoding of sig^e mod n is
\* 0x00 || 0x01 || 0xFF.. || 0x00 || prefix || hashed, for any integer type T
\* and modulus bit length.
C5_VerifyExact ==
    pc = "verify" =>
        (ret = Ok(<<>>) <=>
            ValidSignature(args.pub_key, args.prefix, args.hashed, args.sig, args.sig_len))

\* the same when the modulus fills every byte of T
C5_VerifyExactFullWidth ==
    (pc = "verify" /\ size(args.pub_key.n) = Len(to_be_bytes(args.pub_key.n))) =>
        (ret = Ok(<<>>) <=>
            ValidSignature(args.pub_key, args.prefix, args.hashed, args.sig, args.sig_len))

\* C6: PKCS#1 v1.5 verify and PSS verify_digest return Ok(()) or
\* Err(Verification) for every input, never another error kind.
C6_OnlyVerification ==
    pc \in {"verify", "verify_digest"} =>
        (ret = Ok(<<>>) \/ ret = Err("Verification"))

\* the same when the modulus fills every byte of T
C6_OnlyVerificationFullWidth ==
    (pc \in {"verify", "verify_digest"}
        /\ size(args.pub_key.n) = Len(to_be_bytes(args.pub_key.n))) =>
        (ret = Ok(<<>>) \/ ret = Err("Verification"))

(***************************************************************************)
(* key.rs: RsaPrivateKey::validate                                         *)
(***************************************************************************)
\* one turn of shift-and-add multiplication on s = [a, b, result, a_lost,
\* lost]: a_lost and lost record bits shifted or carried out of T
mul_step(s) ==
    IF s.b = T_zero THEN s
    ELSE LET take == BitAnd(s.b, T_one) = T_one
         IN  [a |-> Shl1In(s.a, 0),
              b |-> Shr1(s.b),
              result |-> IF take THEN wrapping_add(s.result, s.a) ELSE s.result,
              a_lost |-> s.a_lost \/ TopBit(s.a) = 1,
              lost |-> s.lost \/ (take /\ (s.a_lost \/ AddOverflows(s.result, s.a)))]

\* n turns: the first half of them and, while b != 0, the rest
RECURSIVE mul_loop(_, _)
mul_loop(s, n) ==
    IF n <= 1 THEN mul_step(s)
    ELSE LET half == mul_loop(s, n \div 2)
         IN  IF half.b = T_zero THEN half
             ELSE mul_loop(half, n - (n \div 2))

\* a * b of T: when the product does not fit, a panic with overflow checks
\* and the product modulo 2^TBits without
mul(a, b) ==
    LET s == mul_loop([a |-> a, b |-> b, result |-> T_zero,
                       a_lost |-> FALSE, lost |-> FALSE], TBits)
    IN  IF s.lost /\ build.overflow_checks
        THEN Panic("attempt to multiply with overflow")
        ELSE Val(s.result)

\* the first loop of validate, from prime number i on with product m:
\* the product, InvalidPrime, or a panic of the multiplication
RECURSIVE validate_product(_, _, _)
validate_product(primes, i, m) ==
    IF i > Len(primes) THEN Val(m)
    ELSE IF Lt(primes[i], T_one) THEN Err("InvalidPrime")
    ELSE LET next == mul(m, primes[i])
         IN  IF next.kind = "panic" THEN next
             ELSE validate_product(primes, i + 1, next.v)

\* the second loop of validate, from prime number i on
RECURSIVE validate_congruence(_, _, _)
validate_congruence(primes, i, de) ==
    IF i > Len(primes) THEN Ok(<<>>)
    ELSE LET modulus == wrapping_sub(primes[i], T_one)
         IN  IF modulus = T_zero THEN DivideByZero
             ELSE IF rem(de, modulus) # T_one THEN Err("InvalidExponent")
             ELSE validate_congruence(primes, i + 1, de)

\* RsaPrivateKey::validate
validate(key) ==
    LET checked == check_public(key.pubkey_components.n, key.pubkey_components.e)
    IN  IF checked.kind = "Err" THEN checked
        ELSE LET m == validate_product(key.primes, 1, T_one)
             IN  IF m.kind # "value" THEN m
                 ELSE IF m.v # key.pubkey_components.n THEN Err("InvalidModulus")
                 ELSE LET de == mul(key.pubkey_components.e, key.d)
                      IN  IF de.kind = "panic" THEN de
                          ELSE validate_congruence(key.primes, 1, de.v)

(***************************************************************************)
(* Validation of private keys of an 8-bit integer type.                    *)
(***************************************************************************)
ValidateModuli == {15, 21, 81, 105, 135, 189}
ValidateExponents == {1, 3, 5}
ValidatePrivateExponents == {1, 3, 5, 11, 53, 87}
ValidatePrimes == {0, 1, 3, 5, 7}

InitValidate ==
    /\ ty = [limb_bits |-> 8, limbs |-> 1]
    /\ build \in {[overflow_checks |-> c, std |-> FALSE] : c \in BOOLEAN}
    /\ \E n \in ValidateModuli, e \in ValidateExponents,
          d \in ValidatePrivateExponents, primes \in [1..4 -> ValidatePrimes] :
          args = [key |-> [pubkey_components |-> new_unchecked(FromSmall(n), FromSmall(e)),
                           d |-> FromSmall(d),
                           primes |-> [i \in 1..4 |-> FromSmall(primes[i])]]]
    /\ pc = "start"
    /\ ret = NoRet

Validate ==
    /\ pc = "start"
    /\ pc' = "validate"
    /\ ret' = validate(args.key)
    /\ UNCHANGED <<ty, build, args>>

NextValidate == Validate

SpecValidate == InitValidate /\ [][NextValidate]_vars

\* the populated slots of primes: those holding a value greater than one
Populated(primes) == {i \in 1..Len(primes) : ToNat(primes[i]) > 1}

\* the exact product of the primes in the slots of the set S
RECURSIVE ExactProduct(_, _)
ExactProduct(primes, S) ==
    IF S = {} THEN 1
    ELSE LET i == CHOOSE j \in S : TRUE
         IN  ToNat(primes[i]) * ExactProduct(primes, S \ {i})

\* a key whose public part passes the public-key checks, with two or more
\* populated primes that multiply to n and d*e = 1 modulo every p - 1, in
\* exact integers
ValidPrivateKey(key) ==
    /\ check_public(key.pubkey_components.n, key.pubkey_components.e).kind = "Ok"
    /\ Cardinality(Populated(key.primes)) >= 2
    /\ ExactProduct(key.primes, Populated(key.primes)) = ToNat(key.pubkey_components.n)
    /\ \A i \in Populated(key.primes) :
          (ToNat(key.pubkey_components.e) * ToNat(key.d)) % (ToNat(key.primes[i]) - 1) = 1

\* C9: validate() returns Ok(()) for every private key whose public part
\* passes the public-key checks, whose populated primes (two or more of the
\* four slots) are all > 1 and multiply to n, and for which d*e = 1 modulo
\* p - 1 for every populated prime, in exact integers; in particular for
\* every valid two-prime key.
C9_ValidateAcceptsValid ==
    (pc = "validate" /\ ValidPrivateKey(args.key)) => ret = Ok(<<>>)

\* C10: validate() returns Err(InvalidPrime) for every key (with a
\* well-formed public part) in which some prime is <= 1, and never aborts
\* with a divide-by-zero.
C10_ValidateRejectsSmallPrime ==
    pc = "validate" =>
        /\ ((check_public(args.key.pubkey_components.n,
                          args.key.pubkey_components.e).kind = "Ok"
                /\ \E i \in 1..4 : ToNat(args.key.primes[i]) <= 1)
               => ret = Err("InvalidPrime"))
        /\ ret # DivideByZero

\* what holds instead: a zero prime with no panic before it is InvalidPrime
C10_ValidateRejectsZeroPrime ==
    (pc = "validate"
        /\ check_public(args.key.pubkey_components.n,
                        args.key.pubkey_components.e).kind = "Ok"
        /\ \E i \in 1..4 : args.key.primes[i] = T_zero
        /\ ret.kind # "panic") => ret = Err("InvalidPrime")

(***************************************************************************)
(* algorithms/pkcs1v15.rs: the encryption padding                          *)
(***************************************************************************)
\* a call that never returns
Diverges == [kind |-> "diverges"]

\* the largest modulus size in bytes the padding is swept over
MaxPadK == 13

\* RngCore::fill_bytes: the generator is its output sequence `out`, repeated
\* for ever, and the number of bytes drawn so far; a call hands out the next
\* n bytes
fill_bytes(rng, n) ==
    [bytes |-> [i \in 1..n |-> rng.out[((rng.drawn + i - 1) % Len(rng.out)) + 1]],
     rng |-> [rng EXCEPT !.drawn = @ + n]]

\* the generator never yields a byte other than zero
OnlyZeros(rng) == \A i \in 1..Len(rng.out) : rng.out[i] = 0

\* while *el == 0u8 { rng.fill_bytes(from_mut(el)) }: redraw one byte until it
\* is not zero (not entered for a generator that only yields zeros)
RECURSIVE resample_while_zero(_, _)
resample_while_zero(el, rng) ==
    IF el # 0 THEN [el |-> el, rng |-> rng]
    ELSE LET f == fill_bytes(rng, 1)
         IN  resample_while_zero(f.bytes[1], f.rng)

\* for el in data: the turns of the loop from element i on
RECURSIVE non_zero_from(_, _, _)
non_zero_from(data, i, rng) ==
    IF i > Len(data) THEN [kind |-> "returns", data |-> data, rng |-> rng]
    ELSE IF data[i] # 0 THEN non_zero_from(data, i + 1, rng)
    ELSE IF OnlyZeros(rng) THEN [kind |-> "diverges", data |-> data, rng |-> rng]
    ELSE LET r == resample_while_zero(data[i], rng)
         IN  non_zero_from([data EXCEPT ![i] = r.el], i + 1, r.rng)

\* non_zero_random_bytes over a slice of n bytes
non_zero_random_bytes(rng, n) ==
    LET f == fill_bytes(rng, n)
    IN  non_zero_from(f.bytes, 1, f.rng)

\* a - b on usize: the difference; when it is negative the build decides:
\* a panic with overflow checks, otherwise 2^64 + (a - b), kept as "wrapped"
usize_sub(a, b) ==
    IF a >= b THEN Val(a - b)
    ELSE IF build.overflow_checks THEN Panic("attempt to subtract with overflow")
    ELSE [kind |-> "wrapped", v |-> a - b]

\* storage with its first bytes replaced by em
WithPrefix(storage, em) ==
    [i \in 1..Len(storage) |-> IF i <= Len(em) THEN em[i] ELSE storage[i]]

\* the body of pkcs1v15_encrypt_pad once the length test has passed: the
\* writes into em = storage[..k], in the order of the code
encrypt_pad_fill(rng, msg, k, storage) ==
    LET mlen == Len(msg)
        em0 == SubSeq(storage, 1, k)
        em1 == [em0 EXCEPT ![1] = 0]
        em2 == [em1 EXCEPT ![2] = 2]
        \* k - msg.len() - 1, two subtractions on usize
        d1 == usize_sub(k, mlen)
        ps_end == IF d1.kind = "value" THEN usize_sub(d1.v, 1)
                  ELSE IF d1.kind = "wrapped" THEN [d1 EXCEPT !.v = @ - 1]
                  ELSE d1
        stop(em, why) == [res |-> Panic(why), storage |-> WithPrefix(storage, em), rng |-> rng]
    IN  IF k > Len(storage)
        THEN [res |-> Err("OutputBufferTooSmall"), storage |-> storage, rng |-> rng]
        ELSE IF k < 1 THEN stop(em0, "index out of bounds")
        ELSE IF k < 2 THEN stop(em1, "index out of bounds")
        ELSE IF ps_end.kind = "panic" THEN stop(em2, ps_end.why)
        ELSE IF ps_end.kind = "wrapped" THEN stop(em2, "range end index out of range")
        ELSE IF ps_end.v < 2 THEN stop(em2, "slice index starts after its end")
        ELSE LET ps == non_zero_random_bytes(rng, ps_end.v - 2)
                 em3 == [i \in 1..k |-> IF i > 2 /\ i <= ps_end.v THEN ps.data[i - 2]
                                        ELSE em2[i]]
                 em4 == [em3 EXCEPT ![ps_end.v + 1] = 0]
                 em5 == [i \in 1..k |-> IF i > k - mlen THEN msg[i - (k - mlen)]
                                        ELSE em4[i]]
             IN  IF ps.kind = "diverges"
                 THEN [res |-> Diverges, storage |-> WithPrefix(storage, em3), rng |-> ps.rng]
                 ELSE [res |-> Ok(em5), storage |-> WithPrefix(storage, em5), rng |-> ps.rng]

\* pkcs1v15_encrypt_pad: the outcome, the storage and the generator it leaves
pkcs1v15_encrypt_pad(rng, msg, k, storage) ==
    LET limit == usize_sub(k, 11)
    IN  IF limit.kind = "panic"
        THEN [res |-> limit, storage |-> storage, rng |-> rng]
        ELSE IF limit.kind = "value" /\ Len(msg) > limit.v
        THEN [res |-> Err("MessageTooLong"), storage |-> storage, rng |-> rng]
        ELSE encrypt_pad_fill(rng, msg, k, storage)

PadMessages == {<<>>, <<0>>, <<104, 105>>, <<1, 0, 3>>}
PadGenerators == {<<0>>, <<7>>, <<0, 0, 9>>, <<0, 255, 0, 1>>}
PadFills == {0, 85}
PadStorages(k) ==
    {[i \in 1..len |-> fill] : len \in {l \in {k - 1, k, k + 2} : l >= 0}, fill \in PadFills}

InitEncryptPad ==
    /\ ty = [limb_bits |-> 8, limbs |-> 1]
    /\ build \in {[overflow_checks |-> c, std |-> FALSE] : c \in BOOLEAN}
    /\ \E k \in 0..MaxPadK, msg \in PadMessages, out \in PadGenerators :
          \E storage \in PadStorages(k) :
              args = [rng |-> [out |-> out, drawn |-> 0], msg |-> msg, k |-> k,
                      storage |-> storage]
    /\ pc = "start"
    /\ ret = NoRet

EncryptPad ==
    /\ pc = "start"
    /\ pc' = "pkcs1v15_encrypt_pad"
    /\ ret' = pkcs1v15_encrypt_pad(args.rng, args.msg, args.k, args.storage)
    /\ UNCHANGED <<ty, build, args>>

NextEncryptPad == EncryptPad

SpecEncryptPad == InitEncryptPad /\ [][NextEncryptPad]_vars

\* EM = 0x00 || 0x02 || PS || 0x00 || msg of k bytes, PS without a zero byte
PadLayout(em, msg, k) ==
    /\ Len(em) = k
    /\ k >= Len(msg) + 3
    /\ em[1] = 0
    /\ em[2] = 2
    /\ \A i \in 3..(k - Len(msg) - 1) : em[i] # 0
    /\ em[k - Len(msg)] = 0
    /\ SubSeq(em, k - Len(msg) + 1, k) = msg

\* C11: on success pkcs1v15_encrypt_pad returns exactly k bytes 0x00 || 0x02
\* || PS || 0x00 || msg, where PS is k - msg.len() - 3 >= 8 non-zero bytes,
\* for every generator output and every prior content of the storage.
C11_PadLayoutOnSuccess ==
    (pc = "pkcs1v15_encrypt_pad" /\ ret.res.kind = "Ok") =>
        /\ PadLayout(ret.res.v, args.msg, args.k)
        /\ args.k - Len(args.msg) - 3 >= 8

\* the same for the calls in which k - 11 does not wrap
C11_PadLayoutFromEleven ==
    (pc = "pkcs1v15_encrypt_pad" /\ ret.res.kind = "Ok"
        /\ (args.k >= 11 \/ build.overflow_checks)) =>
        /\ PadLayout(ret.res.v, args.msg, args.k)
        /\ args.k - Len(args.msg) - 3 >= 8

\* C12: for k >= 11 and a storage of at least k bytes, pkcs1v15_encrypt_pad
\* fails with MessageTooLong exactly when msg.len() > k - 11 and succeeds
\* whenever msg.len() <= k - 11.
C12_MessageTooLongExact ==
    (pc = "pkcs1v15_encrypt_pad" /\ args.k >= 11 /\ Len(args.storage) >= args.k) =>
        /\ ret.res = Err("MessageTooLong") <=> Len(args.msg) > args.k - 11
        /\ Len(args.msg) <= args.k - 11 => ret.res.kind = "Ok"

\* the same for the generators that yield a non-zero byte
C12_MessageTooLongExactWhenRngYields ==
    (pc = "pkcs1v15_encrypt_pad" /\ args.k >= 11 /\ Len(args.storage) >= args.k
        /\ ~OnlyZeros(args.rng)) =>
        /\ ret.res = Err("MessageTooLong") <=> Len(args.msg) > args.k - 11
        /\ Len(args.msg) <= args.k - 11 => ret.res.kind = "Ok"

(***************************************************************************)
(* pkcs1v15.rs: encryption                                                 *)
(***************************************************************************)
\* the limb made of the bytes b[from + 1 .. from + per], most significant first
RECURSIVE LimbOf(_, _, _, _)
LimbOf(b, from, per, acc) ==
    IF per = 0 THEN acc
    ELSE LimbOf(b, from + 1, per - 1, acc * 256 + b[from + 1])

\* FromBytes::from_be_bytes on size_of::<T>() bytes
from_be_bytes(b) ==
    LET per == ty.limb_bits \div 8
    IN  Limbs([i \in 1..NLimbs |-> LimbOf(b, (i - 1) * per, per, 0)])

\* size_of::<T>()
SizeOfT == (ty.limb_bits \div 8) * ty.limbs

\* a variant without storage.zeroize(): the ciphertext is written over the
\* storage as the padding left it
encrypt_without_zeroize(rng, pub_key, msg, storage) ==
    LET checked == check_public(pub_key.n, pub_key.e)
        k == size(pub_key.n)
        padded == pkcs1v15_encrypt_pad(rng, msg, k, storage)
        zeroed == [i \in 1..Len(storage) |-> 0]
    IN  IF checked.kind # "Ok" THEN [res |-> checked, storage |-> storage]
        ELSE IF padded.res.kind # "Ok"
        THEN [res |-> padded.res, storage |-> padded.storage]
        ELSE IF Len(padded.res.v) # SizeOfT
        THEN [res |-> Panic("source slice length does not match destination slice length"),
              storage |-> padded.storage]
        ELSE LET padded_em == from_be_bytes(padded.res.v)
                 encr == rsa_encrypt(pub_key, padded_em)
             IN  IF encr.kind = "panic" THEN [res |-> encr, storage |-> padded.storage]
                 ELSE uint_to_be_pad(encr.v, k, padded.storage)

\* pkcs1v15::encrypt (EncryptingKey::encrypt_with_rng): the outcome and the
\* storage it leaves
encrypt(rng, pub_key, msg, storage) ==
    LET checked == check_public(pub_key.n, pub_key.e)
        k == size(pub_key.n)
        padded == pkcs1v15_encrypt_pad(rng, msg, k, storage)
        zeroed == [i \in 1..Len(storage) |-> 0]
    IN  IF checked.kind # "Ok" THEN [res |-> checked, storage |-> storage]
        ELSE IF padded.res.kind # "Ok"
        THEN [res |-> padded.res, storage |-> padded.storage]
        ELSE IF Len(padded.res.v) # SizeOfT
        THEN [res |-> Panic("source slice length does not match destination slice length"),
              storage |-> padded.storage]
        ELSE LET padded_em == from_be_bytes(padded.res.v)
                 encr == rsa_encrypt(pub_key, padded_em)
             IN  IF encr.kind = "panic" THEN [res |-> encr, storage |-> zeroed]
                 ELSE uint_to_be_pad(encr.v, k, zeroed)

EncryptTypes == {[limb_bits |-> 8, limbs |-> 13], [limb_bits |-> 8, limbs |-> 14]}
EncryptStorageLens == {12, 13, 16}

InitEncrypt ==
    /\ ty \in EncryptTypes
    /\ build = DefaultBuild
    /\ \E e \in {1, 3}, msg \in PadMessages, out \in PadGenerators,
          len \in EncryptStorageLens, fill \in PadFills :
          args = [rng |-> [out |-> out, drawn |-> 0],
                  pub_key |-> new_unchecked(Widen(SampleModulus), FromSmall(e)),
                  msg |-> msg, storage |-> [i \in 1..len |-> fill]]
    /\ pc = "start"
    /\ ret = NoRet

Encrypt ==
    /\ pc = "start"
    /\ pc' = "encrypt"
    /\ ret' = encrypt(args.rng, args.pub_key, args.msg, args.storage)
    /\ UNCHANGED <<ty, build, args>>

NextEncrypt == Encrypt

SpecEncrypt == InitEncrypt /\ [][NextEncrypt]_vars

\* the call is one the claim covers: a valid key, msg.len() <= k - 11 and a
\* storage of at least k bytes
EncryptCovered ==
    /\ check_public(args.pub_key.n, args.pub_key.e) = Ok(<<>>)
    /\ Len(args.msg) <= size(args.pub_key.n) - 11
    /\ Len(args.storage) >= size(args.pub_key.n)

\* the ciphertext of the padded message the call built
EncryptedPadded ==
    LET k == size(args.pub_key.n)
        em == pkcs1v15_encrypt_pad(args.rng, args.msg, k, args.storage).res.v
    IN  /\ PadLayout(em, args.msg, k)
        /\ ret.res = Ok(BigEndianPadded(
                            mod_exp(Widen(em), args.pub_key.e, args.pub_key.n), k))
        /\ Len(ret.res.v) = k

\* C13: for every valid public key, of any integer type T and modulus bit
\* length, every msg with msg.len() <= k - 11 and every storage of at least
\* k bytes, encrypt succeeds and returns the k-byte big-endian
\* left-zero-padded encoding of EM^e mod n, EM the padded message.
C13_EncryptSucceeds ==
    (pc = "encrypt" /\ EncryptCovered) => (ret.res.kind = "Ok" /\ EncryptedPadded)

\* the same when the modulus fills every byte of T and the generator yields
\* a non-zero byte
C13_EncryptSucceedsFullWidth ==
    (pc = "encrypt" /\ EncryptCovered /\ size(args.pub_key.n) = SizeOfT
        /\ ~OnlyZeros(args.rng)) =>
        (ret.res.kind = "Ok" /\ EncryptedPadded)

(***************************************************************************)
(* algorithms/pad.rs: uint_to_be_pad over small integer types              *)
(***************************************************************************)
\* the largest padded length the conversion is swept over
MaxPadLen == 4

PadTypes == {[limb_bits |-> 8, limbs |-> 2], [limb_bits |-> 8, limbs |-> 3],
             [limb_bits |-> 16, limbs |-> 1]}
PadLimbs == IF ty.limb_bits = 8 THEN {0, 1, 173, 222} ELSE {0, 1, 173, 222, 256, 57005}
PadValues == {Limbs(f) : f \in [1..NLimbs -> PadLimbs]}

InitPad ==
    /\ ty \in PadTypes
    /\ build = DefaultBuild
    /\ \E input \in PadValues, padded_len \in 0..MaxPadLen, fill \in PadFills :
          \E len \in {l \in {padded_len - 1, padded_len, padded_len + 1} : l >= 0} :
              args = [input |-> input, padded_len |-> padded_len,
                      storage |-> [i \in 1..len |-> fill]]
    /\ pc = "start"
    /\ ret = NoRet

UintToBePad ==
    /\ pc = "start"
    /\ pc' = "uint_to_be_pad"
    /\ ret' = uint_to_be_pad(args.input, args.padded_len, args.storage)
    /\ UNCHANGED <<ty, build, args>>

LeftPad ==
    /\ pc = "start"
    /\ pc' = "left_pad"
    /\ ret' = left_pad(to_be_bytes(args.input), args.padded_len, args.storage)
    /\ UNCHANGED <<ty, build, args>>

NextPad == UintToBePad \/ LeftPad

SpecPad == InitPad /\ [][NextPad]_vars

\* x < 256^k: every byte of x above its k lowest bytes is zero
Below256Pow(x, k) ==
    LET b == to_be_bytes(x)
    IN  \A i \in 1..(Len(b) - k) : b[i] = 0

\* C14: for every x < 256^k and every storage of at least k bytes,
\* uint_to_be_pad(x, k, storage) succeeds and returns exactly the k bytes of
\* the big-endian encoding of x left-padded with zero bytes.
C14_UintToBePadExact ==
    (pc = "uint_to_be_pad" /\ Below256Pow(args.input, args.padded_len)
        /\ Len(args.storage) >= args.padded_len) =>
        /\ ret.res = Ok(BigEndianPadded(args.input, args.padded_len))
        /\ Len(ret.res.v) = args.padded_len

\* the same when k is at least size_of::<T>()
C14_UintToBePadExactFromWidth ==
    (pc = "uint_to_be_pad" /\ args.padded_len >= SizeOfT
        /\ Len(args.storage) >= args.padded_len) =>
        /\ ret.res = Ok(BigEndianPadded(args.input, args.padded_len))
        /\ Len(ret.res.v) = args.padded_len

(***************************************************************************)
(* algorithms/pss.rs: emsa_pss_verify (over a DynDigest) and               *)
(* emsa_pss_verify_digest, called on encoded messages directly             *)
(***************************************************************************)
\* let mut digest_storage = [0u8; MAX_DIGEST_LEN]
MAX_DIGEST_LEN == 64

\* DynDigest::finalize_into_reset: writes the digest when the buffer is
\* exactly output_size() bytes long, and fails with InvalidBufferSize for a
\* buffer of any other length
finalize_into_reset(bytes, buf_len) ==
    IF buf_len = Digest_output_size THEN Ok(Digest_finalize(bytes))
    ELSE Err("InvalidBufferSize")

\* mgf1_xor: MGF1 over a DynDigest, the same stream as mgf1_xor_digest
mgf1_xor(out, seed) == mgf1_xor_digest(out, seed)

\* emsa_pss_verify, for key_bits >= 1
emsa_pss_verify(m_hash, em_in, s_len, key_bits) ==
    LET em_bits == key_bits - 1
        em_len == (em_bits + 7) \div 8
        key_len == (key_bits + 7) \div 8
        h_len == Digest_output_size
    IN  IF key_len - em_len > Len(em_in)
        THEN Panic("range start index out of range for slice")
        ELSE LET em == SubSeq(em_in, key_len - em_len + 1, Len(em_in))
                 pre == emsa_pss_verify_pre(m_hash, em, em_bits, s_len, h_len)
             IN  IF pre.kind # "Ok" THEN pre
                 ELSE IF em_len - h_len - s_len - 2 < 0
                         \/ em_len - h_len - s_len - 2 >= Len(pre.v.db)
                 THEN Panic("split_at / index out of bounds")
                 ELSE LET h == pre.v.h
                          unmasked == mgf1_xor(pre.v.db, h)
                          db == [unmasked EXCEPT
                                   ![1] = AndNat(@, 255 \div (2 ^ (8 * em_len - em_bits)))]
                          salt_valid == emsa_pss_verify_salt(db, em_len, s_len, h_len)
                          salt == SubSeq(db, Len(db) - s_len + 1, Len(db))
                          finalized == finalize_into_reset(
                                          <<0, 0, 0, 0, 0, 0, 0, 0>> \o m_hash \o salt,
                                          MAX_DIGEST_LEN)
                      IN  IF finalized.kind # "Ok" THEN Err("DigestBufferTooSmall")
                          ELSE IF ChoiceAnd(salt_valid, ct_eq_slice(finalized.v, h)) = 1
                          THEN Ok(<<>>)
                          ELSE Err("Verification")

\* EMSA-PSS-ENCODE of RFC 8017, 9.1.1, used to build the encoded messages the
\* verification is called on
PssEncoding(m_hash, salt, em_bits) ==
    LET em_len == (em_bits + 7) \div 8
        h == Digest_finalize(<<0, 0, 0, 0, 0, 0, 0, 0>> \o m_hash \o salt)
        db == [i \in 1..(em_len - Len(salt) - Len(h) - 2) |-> 0] \o <<1>> \o salt
        masked == mgf1_xor_digest(db, h)
    IN  [masked EXCEPT ![1] = @ % (2 ^ (8 - (8 * em_len - em_bits)))] \o h \o <<188>>

PssKeyBits == {1, 8, 9, 23, 24, 25, 32, 33}
PssSalts == {<<>>, <<5>>}
PssSaltLens == {0, 1, 2}
PssPerturbBytes == {0, 1, 128, 189, 255}
PssSkippedBytes == {0, 255}

\* one byte of em replaced
OneByteSet(em, i, x) == [em EXCEPT ![i] = x]

\* the emLen-byte messages tried for em_bits: the encodings of <<171>>, the
\* same with one byte changed, and strings of one repeated byte
PssMessages(em_bits) ==
    LET em_len == (em_bits + 7) \div 8
        valid == {PssEncoding(<<171>>, salt, em_bits) :
                     salt \in {s \in PssSalts : em_len >= Len(s) + Digest_output_size + 2}}
    IN  valid
          \cup {OneByteSet(em, i, x) : em \in valid, i \in 1..em_len, x \in PssPerturbBytes}
          \cup {[i \in 1..em_len |-> x] : x \in {0, 188}}

InitPss ==
    /\ ty = [limb_bits |-> 8, limbs |-> 1]
    /\ build \in {[overflow_checks |-> FALSE, std |-> s] : s \in BOOLEAN}
    /\ \E key_bits \in PssKeyBits, m_hash \in Digests, s_len \in PssSaltLens,
          skipped \in PssSkippedBytes :
          \E em \in PssMessages(key_bits - 1) :
              args = [m_hash |-> m_hash,
                      em |-> IF (key_bits + 7) \div 8 > Len(em) THEN <<skipped>> \o em
                             ELSE em,
                      s_len |-> s_len, key_bits |-> key_bits]
    /\ pc = "start"
    /\ ret = NoRet

EmsaPssVerify ==
    /\ pc = "start"
    /\ pc' = "emsa_pss_verify"
    /\ ret' = emsa_pss_verify(args.m_hash, args.em, args.s_len, args.key_bits)
    /\ UNCHANGED <<ty, build, args>>

EmsaPssVerifyDigest ==
    /\ pc = "start"
    /\ pc' = "emsa_pss_verify_digest"
    /\ ret' = emsa_pss_verify_digest(args.m_hash, args.em, args.s_len, args.key_bits)
    /\ UNCHANGED <<ty, build, args>>

NextPss == EmsaPssVerify \/ EmsaPssVerifyDigest

SpecPss == InitPss /\ [][NextPss]_vars

\* the conditions of EMSA-PSS-VERIFY on the emLen-byte encoded message em
PssConsistent(m_hash, em, em_bits, s_len) ==
    LET em_len == Len(em)
        h_len == Digest_output_size
        keep == 2 ^ (8 - (8 * em_len - em_bits))
    IN  /\ Len(m_hash) = h_len
        /\ em_len >= h_len + s_len + 2
        /\ em[em_len] = 188
        /\ em[1] < keep
        /\ LET h == SubSeq(em, em_len - h_len, em_len - 1)
               unmasked == mgf1_xor_digest(SubSeq(em, 1, em_len - h_len - 1), h)
               db == [unmasked EXCEPT ![1] = @ % keep]
               salt == SubSeq(db, Len(db) - s_len + 1, Len(db))
           IN  /\ \A i \in 1..(em_len - h_len - s_len - 2) : db[i] = 0
               /\ db[em_len - h_len - s_len - 1] = 1
               /\ Digest_finalize(<<0, 0, 0, 0, 0, 0, 0, 0>> \o m_hash \o salt) = h

\* the last emLen bytes of the message the call was given
PssCheckedPart ==
    LET em_len == (args.key_bits - 1 + 7) \div 8
    IN  SubSeq(args.em, Len(args.em) - em_len + 1, Len(args.em))

\* C15: emsa_pss_verify and emsa_pss_verify_digest return Ok(()) exactly when
\* mHash.len() = hLen, emLen >= hLen + sLen + 2, the last byte is 0xBC, the
\* top 8*emLen - emBits bits are zero, the unmasked DB is zeros || 0x01 ||
\* salt and Hash(0x00 * 8 || mHash || salt) = H; otherwise they return
\* Err(Verification).
C15_PssVerifyExact ==
    (pc \in {"emsa_pss_verify", "emsa_pss_verify_digest"}) =>
        /\ ret = Ok(<<>>) <=>
              PssConsistent(args.m_hash, PssCheckedPart, args.key_bits - 1, args.s_len)
        /\ ret # Ok(<<>>) => ret = Err("Verification")

\* the same for emsa_pss_verify_digest alone, when built without the std
\* feature or called on a message of at least two bytes
C15_PssVerifyDigestExactNoStd ==
    (pc = "emsa_pss_verify_digest" /\ (~build.std \/ Len(PssCheckedPart) >= 2)) =>
        /\ ret = Ok(<<>>) <=>
              PssConsistent(args.m_hash, PssCheckedPart, args.key_bits - 1, args.s_len)
        /\ ret # Ok(<<>>) => ret = Err("Verification")

(***************************************************************************)
(* algorithms/oaep.rs, oaep.rs, oaep/encrypting_key.rs: OAEP encryption.   *)
(* The label digest D and the MGF1 digest MGD are the one-byte digest.     *)
(***************************************************************************)
\* Option<String<128>>
None == [some |-> FALSE]
Some(v) == [some |-> TRUE, v |-> v]

\* label.unwrap_or_default().as_bytes()
unwrap_or_default(label) == IF label.some THEN label.v ELSE <<>>

\* todo!()
NotYetImplemented == Panic("not yet implemented")

\* encrypt_internal with the mask closure of oaep_encrypt_digest: the
\* outcome, the storage and the generator it leaves, and the bytes of em
\* when mgf is called
encrypt_internal(rng, msg, p_hash, h_size, k, storage) ==
    IF Len(msg) + 2 * h_size + 2 > k
    THEN [res |-> Err("MessageTooLong"), storage |-> storage, rng |-> rng,
          before_mgf |-> <<>>]
    ELSE IF k > Len(storage)
    THEN [res |-> Err("OutputBufferTooSmall"), storage |-> storage, rng |-> rng,
          before_mgf |-> <<>>]
    ELSE LET em == SubSeq(storage, 1, k)
             seeded == fill_bytes(rng, h_size)
             seed == seeded.bytes
             db_len == k - h_size - 1
             db0 == SubSeq(em, h_size + 2, k)
             db == [i \in 1..db_len |->
                       IF i <= h_size THEN p_hash[i]
                       ELSE IF i = db_len - Len(msg) THEN 1
                       ELSE IF i > db_len - Len(msg) THEN msg[i - (db_len - Len(msg))]
                       ELSE db0[i]]
             masked_db == mgf1_xor_digest(db, seed)
             masked_seed == mgf1_xor_digest(seed, masked_db)
             out == <<em[1]>> \o masked_seed \o masked_db
         IN  IF Len(p_hash) # h_size
             THEN [res |-> Panic("source slice length does not match destination slice length"),
                   storage |-> WithPrefix(storage, <<em[1]>> \o seed),
                   rng |-> seeded.rng, before_mgf |-> <<>>]
             ELSE [res |-> Ok(out), storage |-> WithPrefix(storage, out),
                   rng |-> seeded.rng, before_mgf |-> <<em[1]>> \o seed \o db]

\* oaep_encrypt_digest (a label of at most 128 bytes is never too long)
oaep_encrypt_digest(rng, msg, label, k, storage) ==
    encrypt_internal(rng, msg, Digest_finalize(unwrap_or_default(label)),
                     Digest_output_size, k, storage)

\* oaep::encrypt_digest: the padding, then todo!()
encrypt_digest(rng, pub_key, msg, label, storage) ==
    LET checked == check_public(pub_key.n, pub_key.e)
        padded == oaep_encrypt_digest(rng, msg, label, size(pub_key.n), storage)
    IN  IF checked.kind # "Ok"
        THEN [res |-> checked, storage |-> storage, rng |-> rng, before_mgf |-> <<>>]
        ELSE IF padded.res.kind # "Ok" THEN padded
        ELSE [padded EXCEPT !.res = NotYetImplemented]

\* Oaep::new, Oaep::new_with_label, Oaep::new_with_mgf_hash,
\* Oaep::new_with_mgf_hash_and_label
Oaep_new == [label |-> None]
Oaep_new_with_label(label) == [label |-> None]
Oaep_new_with_mgf_hash == [label |-> None]
Oaep_new_with_mgf_hash_and_label(label) == [label |-> None]

\* oaep::EncryptingKey::new, new_with_label
EncryptingKey_new(key) == [inner |-> key, label |-> None]
EncryptingKey_new_with_label(key, label) == [inner |-> key, label |-> None]

\* the largest k encrypt_internal is called with
MaxOaepK == 7

OaepType == [limb_bits |-> 8, limbs |-> 5]
OaepModuli == {<<0, 139, 130, 39, 155>>, <<139, 130, 39, 154, 127>>}
OaepLabels == {None, Some(<<108>>), Some(<<108, 98>>)}

InitOaep ==
    /\ ty = OaepType
    /\ build = DefaultBuild
    /\ \E k \in 0..MaxOaepK, msg \in PadMessages, out \in PadGenerators,
          label \in OaepLabels, n \in OaepModuli :
          \E storage \in PadStorages(k) :
              args = [rng |-> [out |-> out, drawn |-> 0], msg |-> msg, label |-> label,
                      k |-> k, storage |-> storage,
                      pub_key |-> new_unchecked(n, FromSmall(3))]
    /\ pc = "start"
    /\ ret = NoRet

EncryptInternal ==
    /\ pc = "start"
    /\ pc' = "encrypt_internal"
    /\ ret' = encrypt_internal(args.rng, args.msg,
                               Digest_finalize(unwrap_or_default(args.label)),
                               Digest_output_size, args.k, args.storage)
    /\ UNCHANGED <<ty, build, args>>

OaepEncryptDigest ==
    /\ pc = "start"
    /\ pc' = "oaep_encrypt_digest"
    /\ ret' = oaep_encrypt_digest(args.rng, args.msg, args.label, args.k, args.storage)
    /\ UNCHANGED <<ty, build, args>>

OaepNew ==
    /\ pc = "start"
    /\ ~args.label.some
    /\ \E made \in {[via |-> "Oaep::new", scheme |-> Oaep_new],
                    [via |-> "Oaep::new_with_mgf_hash", scheme |-> Oaep_new_with_mgf_hash]} :
          /\ pc' = made.via
          /\ ret' = made.scheme
    /\ UNCHANGED <<ty, build, args>>

OaepNewWithLabel ==
    /\ pc = "start"
    /\ args.label.some
    /\ pc' = "Oaep::new_with_label"
    /\ ret' = Oaep_new_with_label(args.label.v)
    /\ UNCHANGED <<ty, build, args>>

OaepNewWithMgfHashAndLabel ==
    /\ pc = "start"
    /\ args.label.some
    /\ pc' = "Oaep::new_with_mgf_hash_and_label"
    /\ ret' = Oaep_new_with_mgf_hash_and_label(args.label.v)
    /\ UNCHANGED <<ty, build, args>>

\* <Oaep as PaddingScheme>::encrypt is todo!()
OaepEncrypt ==
    /\ pc \in {"Oaep::new", "Oaep::new_with_mgf_hash", "Oaep::new_with_label",
               "Oaep::new_with_mgf_hash_and_label"}
    /\ pc' = "Oaep::encrypt"
    /\ ret' = [scheme |-> ret, out |-> NotYetImplemented]
    /\ UNCHANGED <<ty, build, args>>

EncryptingKeyNew ==
    /\ pc = "start"
    /\ ~args.label.some
    /\ pc' = "EncryptingKey::new"
    /\ ret' = EncryptingKey_new(args.pub_key)
    /\ UNCHANGED <<ty, build, args>>

EncryptingKeyNewWithLabel ==
    /\ pc = "start"
    /\ args.label.some
    /\ pc' = "EncryptingKey::new_with_label"
    /\ ret' = EncryptingKey_new_with_label(args.pub_key, args.label.v)
    /\ UNCHANGED <<ty, build, args>>

\* oaep::EncryptingKey::encrypt_with_rng on the key just made
OaepEncryptWithRng ==
    /\ pc \in {"EncryptingKey::new", "EncryptingKey::new_with_label"}
    /\ pc' = "EncryptingKey::encrypt_with_rng"
    /\ ret' = [key |-> ret,
               out |-> encrypt_digest(args.rng, ret.inner, args.msg, ret.label,
                                      args.storage)]
    /\ UNCHANGED <<ty, build, args>>

NextOaep ==
    \/ EncryptInternal
    \/ OaepEncryptDigest
    \/ OaepNew
    \/ OaepNewWithLabel
    \/ OaepNewWithMgfHashAndLabel
    \/ OaepEncrypt
    \/ EncryptingKeyNew
    \/ EncryptingKeyNewWithLabel
    \/ OaepEncryptWithRng

SpecOaep == InitOaep /\ [][NextOaep]_vars

\* EM = 0x00 || seed || pHash || PS || 0x01 || msg with every PS byte 0x00
OaepLayout(em, seed, p_hash, msg, k) ==
    em = <<0>> \o seed \o p_hash
           \o [i \in 1..(k - Len(msg) - Len(seed) - Len(p_hash) - 2) |-> 0]
           \o <<1>> \o msg

\* C16: for msg.len() + 2*hLen + 2 <= k and a storage of at least k bytes
\* with arbitrary prior contents, encrypt_internal builds, before masking,
\* EM = 0x00 || seed || pHash || PS || 0x01 || msg with every PS byte 0x00;
\* the returned EM has length k and its first byte is 0x00.
C16_OaepLayoutBeforeMasking ==
    (pc = "encrypt_internal"
        /\ Len(args.msg) + 2 * Digest_output_size + 2 <= args.k
        /\ Len(args.storage) >= args.k) =>
        /\ ret.res.kind = "Ok"
        /\ OaepLayout(ret.before_mgf, fill_bytes(args.rng, Digest_output_size).bytes,
                      Digest_finalize(unwrap_or_default(args.label)), args.msg, args.k)
        /\ Len(ret.res.v) = args.k
        /\ ret.res.v[1] = 0

\* the same for a storage whose prior content is all zero
C16_OaepLayoutInZeroedStorage ==
    (pc = "encrypt_internal"
        /\ Len(args.msg) + 2 * Digest_output_size + 2 <= args.k
        /\ Len(args.storage) >= args.k
        /\ \A i \in 1..Len(args.storage) : args.storage[i] = 0) =>
        /\ ret.res.kind = "Ok"
        /\ OaepLayout(ret.before_mgf, fill_bytes(args.rng, Digest_output_size).bytes,
                      Digest_finalize(unwrap_or_default(args.label)), args.msg, args.k)
        /\ Len(ret.res.v) = args.k
        /\ ret.res.v[1] = 0

\* pHash as found at the start of DB when the mask is applied
PHashInDb(before_mgf) ==
    SubSeq(before_mgf, Digest_output_size + 2, 2 * Digest_output_size + 1)

\* C17: a padding context or encrypting key created with a label carries that
\* label, and the pHash at the start of DB during encryption is the digest of
\* exactly that label; only when no label was given is it the digest of the
\* empty string.
C17_LabelCarried ==
    /\ pc \in {"Oaep::new_with_label", "Oaep::new_with_mgf_hash_and_label",
               "EncryptingKey::new_with_label"} => ret.label = args.label
    /\ (pc = "EncryptingKey::encrypt_with_rng" /\ ret.out.before_mgf # <<>>) =>
          PHashInDb(ret.out.before_mgf) = Digest_finalize(unwrap_or_default(args.label))

\* the same for a key or context created without a label
C17_NoLabelCarried ==
    /\ pc \in {"Oaep::new", "Oaep::new_with_mgf_hash", "EncryptingKey::new"} =>
          ret.label = None
    /\ (pc = "EncryptingKey::encrypt_with_rng" /\ ret.out.before_mgf # <<>>
          /\ ~args.label.some) =>
          PHashInDb(ret.out.before_mgf) = Digest_finalize(<<>>)

(***************************************************************************)
(* key.rs, traits/keys.rs: the life of a private key.  args.key is the     *)
(* key the calls are made on; a call that releases storage returns the     *)
(* content of that storage at the moment of release.                       *)
(***************************************************************************)
\* <CrtValue as Zeroize>::zeroize
CrtValue_zeroize(v) == [exp |-> T_zero, coeff |-> T_zero, r |-> T_zero]

\* <CrtValue as Drop>::drop: the value as it is released
CrtValue_drop(v) == CrtValue_zeroize(v)

\* <PrecomputedValues as Zeroize>::zeroize
PrecomputedValues_zeroize(p) ==
    [dp |-> T_zero, dq |-> T_zero, qinv |-> T_zero,
     crt_values |-> [i \in 1..3 |-> CrtValue_zeroize(p.crt_values[i])]]

\* <PrecomputedValues as Drop>::drop, then the drop of its fields: the value
\* as it is released
PrecomputedValues_drop(p) ==
    LET z == PrecomputedValues_zeroize(p)
    IN  [z EXCEPT !.crt_values = [i \in 1..3 |-> CrtValue_drop(z.crt_values[i])]]

\* <Option<PrecomputedValues> as Zeroize>::zeroize: wipes the value it holds,
\* drops it and becomes None
Option_zeroize(o) ==
    IF o.some
    THEN [released |-> Some(PrecomputedValues_drop(PrecomputedValues_zeroize(o.v))),
          now |-> None]
    ELSE [released |-> None, now |-> None]

\* a drop that leaves the primes as they are
RsaPrivateKey_drop_keeping_primes(key) ==
    [d |-> T_zero,
     primes |-> key.primes,
     precomputed |-> Option_zeroize(key.precomputed).released]

\* <RsaPrivateKey as Drop>::drop: d, primes and the precomputed values as
\* they are released
RsaPrivateKey_drop(key) ==
    [d |-> T_zero,
     primes |-> [i \in 1..4 |-> T_zero],
     precomputed |-> Option_zeroize(key.precomputed).released]

\* RsaPrivateKey::precompute
precompute(key) ==
    IF key.precomputed.some THEN [res |-> Ok(<<>>), key |-> key]
    ELSE [res |-> NotYetImplemented, key |-> key]

\* RsaPrivateKey::clear_precomputed: the assignment drops the old value
clear_precomputed(key) ==
    [key |-> [key EXCEPT !.precomputed = None],
     released |-> IF key.precomputed.some
                  THEN Some(PrecomputedValues_drop(key.precomputed.v))
                  ELSE None]

\* RsaPrivateKey::to_public_key
to_public_key(key) == key.pubkey_components

\* the accessors of PublicKeyParts and PrivateKeyParts
RsaPrivateKey_get(key, which) ==
    CASE which = "n" -> Val(key.pubkey_components.n)
      [] which = "e" -> Val(key.pubkey_components.e)
      [] which = "size" -> Panic("not yet implemented: Not yet implemented size")
      [] which = "d" -> Val(key.d)
      [] which = "primes" -> Val(key.primes)
      [] which = "dp" ->
            Val(IF key.precomputed.some THEN Some(key.precomputed.v.dp) ELSE None)
      [] which = "dq" ->
            Val(IF key.precomputed.some THEN Some(key.precomputed.v.dq) ELSE None)
      [] which = "qinv" ->
            Val(IF key.precomputed.some THEN Some(key.precomputed.v.qinv) ELSE None)
      [] which = "crt_values" ->
            Val(IF key.precomputed.some THEN Some(key.precomputed.v.crt_values) ELSE None)

Accessors == {"n", "e", "size", "d", "primes", "dp", "dq", "qinv", "crt_values"}

LifeModuli == {15, 105}
LifePrivateExponents == {3, 11}
LifePrimes == {<<3, 5, 0, 0>>, <<3, 5, 7, 1>>, <<7, 5, 3, 2>>}
LifePrecomputed ==
    {None,
     Some([dp |-> FromSmall(1), dq |-> FromSmall(3), qinv |-> FromSmall(2),
           crt_values |-> [i \in 1..3 |->
                              [exp |-> FromSmall(i), coeff |-> FromSmall(4),
                               r |-> FromSmall(15)]]])}

\* a private key as its life begins: without precomputed values.  Nothing
\* in key.rs writes Some(..) to `precomputed`, so the calls below start here.
InitPrivateKey ==
    /\ ty = [limb_bits |-> 8, limbs |-> 1]
    /\ build \in {[overflow_checks |-> c, std |-> FALSE] : c \in BOOLEAN}
    /\ \E n \in LifeModuli, d \in LifePrivateExponents, primes \in LifePrimes :
          args = [key |-> [pubkey_components |-> new_unchecked(FromSmall(n), FromSmall(3)),
                           d |-> FromSmall(d),
                           primes |-> [i \in 1..4 |-> FromSmall(primes[i])],
                           precomputed |-> None]]
    /\ pc = "start"
    /\ ret = NoRet

\* a value of the struct RsaPrivateKey, `precomputed` None or Some(..): what
\* Drop, Zeroize and the assignment of clear_precomputed are given, whatever
\* built the value
InitKeyValue ==
    /\ ty = [limb_bits |-> 8, limbs |-> 1]
    /\ build \in {[overflow_checks |-> c, std |-> FALSE] : c \in BOOLEAN}
    /\ \E n \in LifeModuli, d \in LifePrivateExponents, primes \in LifePrimes,
          precomputed \in LifePrecomputed :
          args = [key |-> [pubkey_components |-> new_unchecked(FromSmall(n), FromSmall(3)),
                           d |-> FromSmall(d),
                           primes |-> [i \in 1..4 |-> FromSmall(primes[i])],
                           precomputed |-> precomputed]]
    /\ pc = "start"
    /\ ret = NoRet

\* the key is alive and the last call on it returned
Callable == pc # "drop" /\ ret.kind # "panic"

Precompute ==
    /\ Callable
    /\ pc' = "precompute"
    /\ ret' = precompute(args.key).res
    /\ args' = [args EXCEPT !.key = precompute(args.key).key]
    /\ UNCHANGED <<ty, build>>

ClearPrecomputed ==
    /\ Callable
    /\ pc' = "clear_precomputed"
    /\ ret' = Val([released |-> clear_precomputed(args.key).released])
    /\ args' = [args EXCEPT !.key = clear_precomputed(args.key).key]
    /\ UNCHANGED <<ty, build>>

ValidateKey ==
    /\ Callable
    /\ pc' = "validate"
    /\ ret' = validate(args.key)
    /\ UNCHANGED <<ty, build, args>>

ToPublicKey ==
    /\ Callable
    /\ pc' = "to_public_key"
    /\ ret' = Val(to_public_key(args.key))
    /\ UNCHANGED <<ty, build, args>>

Accessor ==
    /\ Callable
    /\ \E which \in Accessors :
          /\ pc' = which
          /\ ret' = RsaPrivateKey_get(args.key, which)
    /\ UNCHANGED <<ty, build, args>>

\* the key goes out of scope, or is unwound after a panic
DropKey ==
    /\ pc # "drop"
    /\ pc' = "drop"
    /\ ret' = Val([released |-> RsaPrivateKey_drop(args.key)])
    /\ UNCHANGED <<ty, build, args>>

NextPrivateKey ==
    \/ Precompute
    \/ ClearPrecomputed
    \/ ValidateKey
    \/ ToPublicKey
    \/ Accessor
    \/ DropKey

SpecPrivateKey == InitPrivateKey /\ [][NextPrivateKey]_vars

\* the same calls on a value of the struct in either state
SpecKeyValue == InitKeyValue /\ [][NextPrivateKey]_vars

WithPrecomputed == args.key.precomputed.some

\* a call of precompute() returns, Ok(()) or an error, and after Ok(()) the
\* key is with precomputed values
LifePrecomputeReturns ==
    pc = "precompute" =>
        /\ ret.kind \in {"Ok", "Err"}
        /\ ret = Ok(<<>>) => WithPrecomputed

\* what holds after each of the other calls
LifeAfterCall ==
    /\ pc = "clear_precomputed" => ~WithPrecomputed
    /\ pc \in {"dp", "dq", "qinv", "crt_values"} => (ret.v.some <=> WithPrecomputed)

\* what holds of each call
LifeStep ==
    /\ args'.key.pubkey_components = args.key.pubkey_components
    /\ args'.key.d = args.key.d
    /\ args'.key.primes = args.key.primes
    /\ (~WithPrecomputed /\ WithPrecomputed') => (pc' = "precompute" /\ ret' = Ok(<<>>))
    /\ (WithPrecomputed /\ ~WithPrecomputed') => pc' = "clear_precomputed"
    /\ (WithPrecomputed /\ pc' = "precompute") => (ret' = Ok(<<>>) /\ args' = args)

\* C18: over any sequence of precompute(), clear_precomputed(), validate(),
\* to_public_key() and accessor calls, n, e, d and primes never change; the
\* key is with precomputed values only after a successful precompute() not
\* followed by clear_precomputed(); precompute() in that state returns Ok(())
\* and changes nothing; clear_precomputed() always leaves the initial state;
\* dp(), dq(), qinv() and crt_values() return Some exactly with precomputed
\* values.  The two states are those of the state machine: the initial one,
\* and the one a call of precompute() on a key in the initial state enters.
C18_PrivateKeyLifecycle ==
    [](LifePrecomputeReturns /\ LifeAfterCall) /\ [][LifeStep]_vars

\* what holds instead of a key from its initial state on: every call of
\* precompute() aborts and leaves the key without precomputed values
C18_PrecomputeAborts ==
    (pc = "precompute") => (ret = NotYetImplemented /\ ~WithPrecomputed)

\* so the key never is with precomputed values, and dp(), dq(), qinv() and
\* crt_values() never return Some
C18_NeverWithPrecomputed ==
    /\ ~WithPrecomputed
    /\ pc \in {"dp", "dq", "qinv", "crt_values"} => ret = Val(None)

\* the rest of the lifecycle holds of the calls that do return
C18_LifecycleOfOtherCalls == [](LifeAfterCall) /\ [][LifeStep]_vars

\* and on a value of the struct that holds precomputed values (SpecKeyValue),
\* precompute() returns Ok(()) and changes nothing
C18_PrecomputeOnValueWithPrecomputed ==
    [][(WithPrecomputed /\ pc' = "precompute") => (ret' = Ok(<<>>) /\ args' = args)]_vars

C18_ReachedPrecomputeAbort ==
    /\ pc = "precompute"
    /\ ret = NotYetImplemented
    /\ ~WithPrecomputed

C18_ReachedCleared ==
    /\ pc = "dp"
    /\ ret = Val(None)
    /\ ~WithPrecomputed

Wiped(p) ==
    /\ p.dp = T_zero
    /\ p.dq = T_zero
    /\ p.qinv = T_zero
    /\ \A i \in 1..3 : /\ p.crt_values[i].exp = T_zero
                       /\ p.crt_values[i].coeff = T_zero
                       /\ p.crt_values[i].r = T_zero

\* C19: when a private key is destroyed, in either state, d and all four
\* entries of primes are zero before the storage is released, and whenever
\* precomputed values are released (on destruction or by
\* clear_precomputed()) dp, dq, qinv and the exp, coeff and r of every
\* CrtValue are zero before release.
C19_SecretsWipedBeforeRelease ==
    /\ pc = "drop" =>
          /\ ret.v.released.d = T_zero
          /\ \A i \in 1..4 : ret.v.released.primes[i] = T_zero
          /\ ret.v.released.precomputed.some => Wiped(ret.v.released.precomputed.v)
    /\ pc = "clear_precomputed" =>
          (ret.v.released.some => Wiped(ret.v.released.v))

C19_Witness ==
    /\ pc = "drop"
    /\ args.key.d # T_zero
    /\ args.key.primes[1] # T_zero
    /\ WithPrecomputed
    /\ args.key.precomputed.v.dp # T_zero
    /\ ret.v.released.precomputed.some

C19_WitnessCleared ==
    /\ pc = "clear_precomputed"
    /\ ret.v.released.some

(***************************************************************************)
(* key.rs: the constructors of a private key from its primes               *)
(***************************************************************************)
\* RsaPrivateKey::from_primes (primes: [T; 4])
from_primes(primes, public_exponent) ==
    IF Len(primes) < 2 THEN Err("NprimesTooSmall")
    ELSE IF \E i \in 1..Len(primes) : \E j \in 1..(i - 1) : primes[i] = primes[j]
    THEN Err("InvalidPrime")
    ELSE NotYetImplemented

\* RsaPrivateKey::from_p_q
from_p_q(p, q, public_exponent) ==
    IF p = q THEN Err("InvalidPrime")
    ELSE NotYetImplemented

FromPrimesValues == {0, 3, 5, 7, 11}
FromPrimesExponents == {3, 5}

InitFromPrimes ==
    /\ ty = [limb_bits |-> 8, limbs |-> 1]
    /\ build = DefaultBuild
    /\ \E primes \in [1..4 -> FromPrimesValues], e \in FromPrimesExponents :
          args = [primes |-> [i \in 1..4 |-> FromSmall(primes[i])],
                  public_exponent |-> FromSmall(e)]
    /\ pc = "start"
    /\ ret = NoRet

FromPrimes ==
    /\ pc = "start"
    /\ pc' = "from_primes"
    /\ ret' = from_primes(args.primes, args.public_exponent)
    /\ UNCHANGED <<ty, build, args>>

FromPQ ==
    /\ pc = "start"
    /\ pc' = "from_p_q"
    /\ ret' = from_p_q(args.primes[1], args.primes[2], args.public_exponent)
    /\ UNCHANGED <<ty, build, args>>

NextFromPrimes == FromPrimes \/ FromPQ

SpecFromPrimes == InitFromPrimes /\ [][NextFromPrimes]_vars

\* the primes given: the populated slots of the array
GivenPrimes(primes) == {i \in 1..Len(primes) : primes[i] # T_zero}

\* C20: from_primes returns Err(NprimesTooSmall) when fewer than 2 primes are
\* given and Err(InvalidPrime) when two of the given primes are equal;
\* from_p_q returns Err(InvalidPrime) when p = q; exactly two distinct primes
\* (two populated slots of the four) are rejected by neither check.
C20_FromPrimesChecks ==
    /\ pc = "from_primes" =>
          LET given == GivenPrimes(args.primes)
              repeated == \E i \in given : \E j \in given \ {i} :
                              args.primes[i] = args.primes[j]
          IN  /\ Cardinality(given) < 2 => ret = Err("NprimesTooSmall")
              /\ (Cardinality(given) >= 2 /\ repeated) => ret = Err("InvalidPrime")
              /\ (Cardinality(given) = 2 /\ ~repeated) =>
                    ret \notin {Err("NprimesTooSmall"), Err("InvalidPrime")}
    /\ (pc = "from_p_q" /\ args.primes[1] = args.primes[2]) => ret = Err("InvalidPrime")

\* what the two constructors do check: any two equal slots, p = q
C20_EqualSlotsRejected ==
    /\ pc = "from_primes" =>
          (ret = Err("InvalidPrime") <=>
              \E i \in 1..4 : \E j \in (1..4) \ {i} : args.primes[i] = args.primes[j])
    /\ pc = "from_p_q" =>
          (ret = Err("InvalidPrime") <=> args.primes[1] = args.primes[2])

(***************************************************************************)
(* Edge cases of the modular arithmetic engine: exponent zero, modulus     *)
(* one, modulus zero.                                                      *)
(***************************************************************************)
\* C21: for every base x, x = 0 included, and every modulus m > 0,
\* mod_exp(x, 0, m) returns 1.
C21_ZeroExponentGivesOne ==
    (pc = "mod_exp" /\ args.b = T_zero /\ args.m # T_zero) => ret = Val(T_one)

C21_Witness ==
    /\ pc = "mod_exp"
    /\ args.a = T_zero
    /\ args.b = T_zero
    /\ args.m # T_zero
    /\ ret = Val(T_one)

C21_WitnessModulusOne ==
    /\ pc = "mod_exp"
    /\ args.b = T_zero
    /\ args.m = T_one
    /\ ret = Val(T_one)

\* C22: for every base a and exponent e, mod_exp(a, e, 1) returns 0, and for
\* every modulus m > 0 the result of mod_exp is strictly less than m.
C22_ModulusOneGivesZero ==
    (pc = "mod_exp" /\ args.m # T_zero) =>
        /\ ret.kind = "value"
        /\ Lt(ret.v, args.m)
        /\ (args.m = T_one => ret.v = T_zero)

\* what holds instead: the result is below the modulus, and zero for modulus
\* one, in every call but those with exponent 0 and modulus 1, which return 1
C22_ModulusOneGivesZeroButExponentZero ==
    (pc = "mod_exp" /\ args.m # T_zero) =>
        /\ ret.kind = "value"
        /\ IF args.b = T_zero /\ args.m = T_one
           THEN ret.v = T_one
           ELSE Lt(ret.v, args.m) /\ (args.m = T_one => ret.v = T_zero)

\* C23: with modulus m = 0, mod_add, mod_mul and mod_exp return no value for
\* any operands, exponent 0 included: the call aborts on the first `% m`.
C23_ZeroModulusAborts ==
    (pc \in {"mod_add", "mod_mul", "modmul_mod_mul", "mod_exp"} /\ args.m = T_zero) =>
        ret = DivideByZero

C23_Witness ==
    /\ pc = "mod_exp"
    /\ args.m = T_zero
    /\ args.b = T_zero
    /\ ret.kind = "panic"

C23_WitnessAdd ==
    /\ pc = "mod_add"
    /\ args.m = T_zero
    /\ ret.kind = "panic"

C23_WitnessMul ==
    /\ pc = "mod_mul"
    /\ args.m = T_zero
    /\ ret.kind = "panic"

(***************************************************************************)
(* algorithms/pkcs1v15.rs: pkcs1v15_encrypt_pad on small modulus sizes     *)
(***************************************************************************)
\* C24: for every message, every modulus size k >= 0 and every storage
\* length pkcs1v15_encrypt_pad does not abort, no subtraction (k - 11,
\* k - msg.len() - 1) underflows, and for k < 11 the call returns
\* Err(MessageTooLong).
C24_EncryptPadNeverAborts ==
    (pc = "pkcs1v15_encrypt_pad") =>
        /\ ret.res.kind # "panic"
        /\ usize_sub(args.k, 11).kind = "value"
        /\ args.k < 11 => ret.res = Err("MessageTooLong")

\* the same for k >= 11, where k - 11 does not underflow
C24_EncryptPadNeverAbortsFromEleven ==
    (pc = "pkcs1v15_encrypt_pad" /\ args.k >= 11) =>
        /\ ret.res.kind # "panic"
        /\ usize_sub(args.k, 11).kind = "value"
        /\ ret.res.kind = "Ok" =>
              usize_sub(args.k - Len(args.msg), 1).kind = "value"

\* for k < 11 the call never returns Err(MessageTooLong): it aborts on the
\* subtraction or goes on to pad
C24_BelowElevenNoTypedError ==
    (pc = "pkcs1v15_encrypt_pad" /\ args.k < 11) =>
        /\ ret.res # Err("MessageTooLong")
        /\ build.overflow_checks => ret.res = Panic("attempt to subtract with overflow")

(***************************************************************************)
(* traits/keys.rs, key.rs: PublicKeyParts::size of the two key types       *)
(***************************************************************************)
\* ceil(bits(n) / 8), bits(n) the index of the highest set bit of n plus one
ModulusBytes(n) == (BitLength(n) + 7) \div 8

\* C25: size() of a private key returns the modulus size in bytes,
\* ceil(bits(n) / 8), the same as size() of the public key that
\* to_public_key() returns.
C25_SizeIsModulusBytes ==
    (pc = "size") =>
        /\ ret = Val(ModulusBytes(args.key.pubkey_components.n))
        /\ ret = Val(size(to_public_key(args.key).n))

\* size() of a private key returns nothing: the call aborts
C25_PrivateKeySizeAborts ==
    (pc = "size") => ret = Panic("not yet implemented: Not yet implemented size")

\* size() of a public key, by the default method of the trait, is
\* ceil(bits(n) / 8) for every n, 0 included
C25_PublicKeySizeIsModulusBytes ==
    (pc = "new_unchecked") => size(ret.v.n) = ModulusBytes(ret.v.n)

(***************************************************************************)
(* algorithms/pkcs1v15.rs: the steps pkcs1v15_sign_unpad performs.  A step *)
(* is recorded by what is done and where (the index compared), never by    *)
(* the bytes it reads, so two calls that perform the same comparisons in   *)
(* the same order have equal records.                                      *)
(***************************************************************************)
\* a variant that skips the comparison once the accumulator is 0
ct_eq_step_short_circuit(s, em, i, with) ==
    IF s.ok = 0 THEN s
    ELSE [ok |-> ChoiceAnd(s.ok, ct_eq(em[i + 1], with)),
          steps |-> Append(s.steps, [op |-> "ct_eq", at |-> i])]

\* ok &= em[i].ct_eq(&with): one byte comparison folded into the accumulator
ct_eq_step(s, em, i, with) ==
    [ok |-> ChoiceAnd(s.ok, ct_eq(em[i + 1], with)),
     steps |-> Append(s.steps, [op |-> "ct_eq", at |-> i])]

\* ok &= em[from..from + other.len()].ct_eq(other): <[u8]>::ct_eq compares
\* the bytes of equal-length slices one by one, from byte j on
RECURSIVE ct_eq_slice_steps(_, _, _, _, _)
ct_eq_slice_steps(s, em, from, other, j) ==
    IF j >= Len(other) THEN s
    ELSE ct_eq_slice_steps(ct_eq_step(s, em, from + j, other[j + 1]),
                           em, from, other, j + 1)

\* for el in em.iter().skip(2).take(n) { ok &= el.ct_eq(&0xff) }, from index i
RECURSIVE sign_unpad_ff_steps(_, _, _, _)
sign_unpad_ff_steps(s, em, i, n) ==
    IF n = 0 \/ i >= Len(em) THEN s
    ELSE sign_unpad_ff_steps(ct_eq_step(s, em, i, 255), em, i + 1, n - 1)

\* pkcs1v15_sign_unpad with the steps it performs: the outcome and the record
pkcs1v15_sign_unpad_steps(prefix, hashed, em, k) ==
    LET hash_len == Len(hashed)
        t_len == Len(prefix) + Len(hashed)
        start == [ok |-> 1, steps |-> <<>>]
        \* an index or a slice past the end of em aborts the call after the
        \* comparisons s has made
        abort(s) == [res |-> Panic("index out of bounds"), steps |-> s.steps]
    IN  IF build.std /\ Len(em) < 2
        THEN abort(start)
        ELSE IF k < t_len + 11
        THEN [res |-> Err("Verification"), steps |-> <<[op |-> "return", on |-> "k"]>>]
        ELSE IF Len(em) < 1 THEN abort(start)
        ELSE IF Len(em) < 2 THEN abort(ct_eq_step(start, em, 0, 0))
        ELSE IF Len(em) < k
        THEN abort(ct_eq_step(ct_eq_step(start, em, 0, 0), em, 1, 1))
        ELSE LET s1 == ct_eq_step(start, em, 0, 0)
                 s2 == ct_eq_step(s1, em, 1, 1)
                 s3 == ct_eq_slice_steps(s2, em, k - hash_len, hashed, 0)
                 s4 == ct_eq_slice_steps(s3, em, k - t_len, prefix, 0)
                 s5 == ct_eq_step(s4, em, k - t_len - 1, 0)
                 s6 == sign_unpad_ff_steps(s5, em, 2, k - t_len - 3)
             IN  [res |-> IF s6.ok # 1 THEN Err("Verification") ELSE Ok(<<>>),
                  steps |-> Append(s6.steps, [op |-> "branch", on |-> "ok"])]

InitUnpadSteps == InitUnpad

SignUnpadSteps ==
    /\ pc = "start"
    /\ pc' = "pkcs1v15_sign_unpad"
    /\ ret' = pkcs1v15_sign_unpad_steps(args.prefix, args.hashed, args.em, args.k)
    /\ UNCHANGED <<ty, build, args>>

NextUnpadSteps == SignUnpadSteps

SpecUnpadSteps == InitUnpadSteps /\ [][NextUnpadSteps]_vars

\* the steps of the call on an encoded message of k bytes equal to x
StepsOnConstantEm(x) ==
    pkcs1v15_sign_unpad_steps(args.prefix, args.hashed, [i \in 1..args.k |-> x],
                              args.k).steps

\* the indices of em compared, in the order of the comparisons
ComparedIndices(steps) ==
    [j \in 1..(Len(steps) - 1) |-> steps[j].at]

\* C26: for fixed k, prefix length and hash length with k >= prefix.len() +
\* hashed.len() + 11, pkcs1v15_sign_unpad performs the same comparisons in
\* the same order for every content of EM: one comparison of each of the k
\* bytes, none skipped after a mismatch, all folded into one accumulator, and
\* one final branch on it, which alone decides between Ok and Verification.
C26_SameComparisonsForEveryEm ==
    (pc = "pkcs1v15_sign_unpad"
        /\ args.k >= Len(args.prefix) + Len(args.hashed) + 11) =>
        /\ ret.steps = StepsOnConstantEm(0)
        /\ ret.steps = StepsOnConstantEm(255)
        /\ Len(ret.steps) = args.k + 1
        /\ \A j \in 1..args.k : ret.steps[j].op = "ct_eq"
        /\ \A i \in 0..(args.k - 1) :
              Cardinality({j \in 1..args.k : ret.steps[j].at = i}) = 1
        /\ ret.steps[args.k + 1] = [op |-> "branch", on |-> "ok"]
        /\ ret.res = pkcs1v15_sign_unpad(args.prefix, args.hashed, args.em, args.k)

\* the first byte compared mismatches and every later comparison is still made
C26_Witness ==
    /\ pc = "pkcs1v15_sign_unpad"
    /\ args.k >= Len(args.prefix) + Len(args.hashed) + 11
    /\ args.em[1] # 0
    /\ ret.res = Err("Verification")
    /\ Len(ret.steps) = args.k + 1
    /\ ret.steps = StepsOnConstantEm(0)

C26_WitnessAccepted ==
    /\ pc = "pkcs1v15_sign_unpad"
    /\ ret.res = Ok(<<>>)
    /\ Len(ret.steps) = args.k + 1

(***************************************************************************)
(* algorithms/pss.rs: the steps emsa_pss_verify_digest performs.  A step   *)
(* is recorded by what is done and on how many bytes, never by the bytes   *)
(* it reads.                                                               *)
(***************************************************************************)
\* emsa_pss_verify_pre: its outcome and its steps, each early return named
\* by the test that takes it
emsa_pss_verify_pre_steps(m_hash, em, em_bits, s_len, h_len) ==
    LET em_len == Len(em)
        res == emsa_pss_verify_pre(m_hash, em, em_bits, s_len, h_len)
        return(on) == <<[op |-> "return", on |-> on]>>
    IN  [res |-> res,
         steps |->
            IF Len(m_hash) # h_len THEN return("m_hash.len() != h_len")
            ELSE IF em_len < h_len + s_len + 2 THEN return("em_len < h_len + s_len + 2")
            ELSE IF em[em_len] # 188 THEN return("em[em.len() - 1] != 0xBC")
            ELSE IF res.kind = "panic" THEN <<[op |-> "panic", on |-> "8 * em_len - em_bits"]>>
            ELSE IF res.kind = "Err" THEN return("db[0] & mask != 0")
            ELSE <<[op |-> "split", db |-> Len(res.v.db), h |-> Len(res.v.h)]>>]

\* emsa_pss_verify_salt: its outcome and its steps, one comparison per byte
\* of the zero run and one of rest[0] with 0x01; db.split_at(mid) aborts
\* before any comparison when mid is not within db (a negative mid
\* underflows or wraps past the end), and rest[0] aborts after the zero run
\* when rest is empty
emsa_pss_verify_salt_steps(db, em_len, s_len, h_len) ==
    LET mid == em_len - h_len - s_len - 2
        compared(n) == [i \in 1..n |-> [op |-> "ct_eq", at |-> i - 1]]
    IN  IF mid < 0 \/ mid > Len(db)
        THEN [res |-> Panic("mid > len"), steps |-> <<>>]
        ELSE IF mid = Len(db)
        THEN [res |-> Panic("index out of bounds"), steps |-> compared(mid)]
        ELSE [res |-> Val(emsa_pss_verify_salt(db, em_len, s_len, h_len)),
              steps |-> compared(mid + 1)]

\* emsa_pss_verify_digest, for key_bits >= 1: its outcome and its steps
emsa_pss_verify_digest_steps(m_hash, em_in, s_len, key_bits) ==
    LET em_bits == key_bits - 1
        em_len == (em_bits + 7) \div 8
        key_len == (key_bits + 7) \div 8
        h_len == Digest_output_size
        res == emsa_pss_verify_digest(m_hash, em_in, s_len, key_bits)
    IN  IF key_len - em_len > Len(em_in)
        THEN [res |-> res, steps |-> <<[op |-> "panic", on |-> "em[key_len - em_len..]"]>>]
        ELSE LET em == SubSeq(em_in, key_len - em_len + 1, Len(em_in))
             IN  IF build.std /\ Len(em) < 2
                 THEN [res |-> res, steps |-> <<[op |-> "panic", on |-> "em[1]"]>>]
                 ELSE LET pre == emsa_pss_verify_pre_steps(m_hash, em, em_bits, s_len, h_len)
                      IN  IF pre.res.kind # "Ok" THEN [res |-> res, steps |-> pre.steps]
                          ELSE LET salt == emsa_pss_verify_salt_steps(
                                               pre.res.v.db, em_len, s_len, h_len)
                                   unmasked ==
                                       pre.steps
                                         \o <<[op |-> "mgf1_xor_digest",
                                               db |-> Len(pre.res.v.db),
                                               h |-> Len(pre.res.v.h)],
                                              [op |-> "db[0] &= mask"]>>
                                         \o salt.steps
                               IN  IF salt.res.kind = "panic"
                                   THEN [res |-> res,
                                         steps |-> unmasked
                                            \o <<[op |-> "panic",
                                                  on |-> "emsa_pss_verify_salt"]>>]
                                   ELSE [res |-> res,
                                         steps |-> unmasked
                                            \o <<[op |-> "hash",
                                                  bytes |-> 8 + Len(m_hash) + s_len],
                                                 [op |-> "ct_eq slice", bytes |-> h_len],
                                                 [op |-> "branch",
                                                  on |-> "salt_valid & h0.ct_eq(h)"]>>]

InitPssSteps == InitPss

EmsaPssVerifyDigestSteps ==
    /\ pc = "start"
    /\ pc' = "emsa_pss_verify_digest"
    /\ ret' = emsa_pss_verify_digest_steps(args.m_hash, args.em, args.s_len, args.key_bits)
    /\ UNCHANGED <<ty, build, args>>

NextPssSteps == EmsaPssVerifyDigestSteps

SpecPssSteps == InitPssSteps /\ [][NextPssSteps]_vars

\* the length checks and the trailer check pass on the checked part of em
PssLengthsAndTrailerPass ==
    LET em == PssCheckedPart
    IN  /\ args.key_bits >= 2
        /\ Len(args.m_hash) = Digest_output_size
        /\ Len(em) >= Digest_output_size + args.s_len + 2
        /\ em[Len(em)] = 188

\* the leading 8 * emLen - emBits bits of the checked part are zero
PssLeadingBitsZero ==
    PssCheckedPart[1] < 2 ^ (8 - (8 * Len(PssCheckedPart) - (args.key_bits - 1)))

\* the steps of the call on the message of the same length that is all zero
\* but for the trailer 0xBC: it passes the leading-bits check and fails later
PssStepsOnZeroEm ==
    emsa_pss_verify_digest_steps(
        args.m_hash,
        [i \in 1..Len(args.em) |-> IF i = Len(args.em) THEN 188 ELSE 0],
        args.s_len, args.key_bits).steps

\* C27: once the length checks and the 0xBC trailer check have passed, the
\* steps of PSS verification (MGF1 unmasking, hashing, comparisons, one final
\* branch) are the same for every encoded message of that length, whether or
\* not the leading-zero-bits check, the DB check or the H = H' comparison
\* fails.
C27_PssChecksFolded ==
    (pc = "emsa_pss_verify_digest" /\ PssLengthsAndTrailerPass) =>
        ret.steps = PssStepsOnZeroEm

\* the same for the messages whose leading bits are zero: the DB check and
\* the H = H' comparison are folded into one result and one final branch
C27_SaltAndHashChecksFolded ==
    (pc = "emsa_pss_verify_digest" /\ PssLengthsAndTrailerPass /\ PssLeadingBitsZero) =>
        /\ ret.steps = PssStepsOnZeroEm
        /\ ret.steps[Len(ret.steps)].op = "branch"

\* a message with a leading bit set is rejected by an early return of
\* emsa_pss_verify_pre, before the unmasking and the hashing
C27_LeadingBitsReturnEarly ==
    (pc = "emsa_pss_verify_digest" /\ PssLengthsAndTrailerPass /\ ~PssLeadingBitsZero) =>
        /\ ret.res = Err("Verification")
        /\ ret.steps = <<[op |-> "return", on |-> "db[0] & mask != 0"]>>

(***************************************************************************)
(* algorithms/pss.rs: the leading byte of the encoded message              *)
(***************************************************************************)
\* the message the call was given with its first n bytes replaced by x
PssWithLeading(n, x) ==
    [i \in 1..Len(args.em) |-> IF i <= n THEN x ELSE args.em[i]]

\* the call of the state on another encoded message
PssOutcomeOn(em) ==
    IF pc = "emsa_pss_verify"
    THEN emsa_pss_verify(args.m_hash, em, args.s_len, args.key_bits)
    ELSE emsa_pss_verify_digest(args.m_hash, em, args.s_len, args.key_bits)

\* C28: in emsa_pss_verify and emsa_pss_verify_digest, for key_bits >= 1,
\* with emBits = key_bits - 1, emLen = ceil(emBits / 8) and key_len =
\* ceil(key_bits / 8), the number of skipped leading bytes key_len - emLen is
\* 0 or 1, and 1 exactly when key_bits = 1 (mod 8); the checks are applied to
\* the last emLen bytes of the key_len-byte message, and the outcome is the
\* same for every value of the skipped byte.
C28_PssSkippedLeadingByte ==
    (pc \in {"emsa_pss_verify", "emsa_pss_verify_digest"} /\ args.key_bits >= 1) =>
        LET em_bits == args.key_bits - 1
            em_len == (em_bits + 7) \div 8
            key_len == (args.key_bits + 7) \div 8
            skipped == key_len - em_len
        IN  /\ skipped \in {0, 1}
            /\ skipped = 1 <=> args.key_bits % 8 = 1
            /\ Len(args.em) = key_len
            /\ PssCheckedPart = SubSeq(args.em, skipped + 1, key_len)
            /\ \A x \in {0, 1, 128, 255} : ret = PssOutcomeOn(PssWithLeading(skipped, x))
            /\ ret = Ok(<<>>) =>
                  PssConsistent(args.m_hash, PssCheckedPart, em_bits, args.s_len)
            /\ ret = Err("Verification") =>
                  ~PssConsistent(args.m_hash, PssCheckedPart, em_bits, args.s_len)

\* a message with a non-zero skipped byte is accepted
C28_Witness ==
    /\ pc = "emsa_pss_verify_digest"
    /\ args.key_bits % 8 = 1
    /\ Len(args.em) = (args.key_bits + 7) \div 8
    /\ args.em[1] = 255
    /\ ret = Ok(<<>>)

C28_WitnessNotSkipped ==
    /\ pc = "emsa_pss_verify_digest"
    /\ args.key_bits % 8 = 0
    /\ ret = Ok(<<>>)

(***************************************************************************)
(* algorithms/pkcs1v15.rs: pkcs1v15_encrypt_pad step by step, one turn of  *)
(* the loops of non_zero_random_bytes at a time.  While the call runs, ret *)
(* holds the padding bytes, the generator and the index of the for loop;   *)
(* pc is "while" at the test `*el == 0u8` of element i (or at the end of   *)
(* the for loop) and "fill_bytes" inside the body of the while loop.       *)
(***************************************************************************)
\* the generator at its position within its cycle of outputs
rng_position(rng) == [rng EXCEPT !.drawn = @ % Len(rng.out)]

\* a generator that yields no zero byte
NonZeroRng == [out |-> <<1>>, drawn |-> 0]

\* the call up to rng.fill_bytes(data): the tests and the writes before it
\* read nothing of the generator, so they end as they do with any generator;
\* when they pass, PS = em[2..k - msg.len() - 1] is filled
EncryptPadEnter ==
    /\ pc = "start"
    /\ LET before == pkcs1v15_encrypt_pad(NonZeroRng, args.msg, args.k, args.storage)
           f == fill_bytes(args.rng, args.k - Len(args.msg) - 3)
       IN  IF before.res.kind # "Ok"
           THEN /\ pc' = "done"
                /\ ret' = [res |-> before.res, storage |-> before.storage]
           ELSE /\ pc' = "while"
                /\ ret' = [data |-> f.bytes, rng |-> rng_position(f.rng), i |-> 1]
    /\ UNCHANGED <<ty, build, args>>

\* `*el == 0u8` is false: the for loop goes on to the next element
NonZeroAdvance ==
    /\ pc = "while"
    /\ ret.i <= Len(ret.data)
    /\ ret.data[ret.i] # 0
    /\ ret' = [ret EXCEPT !.i = @ + 1]
    /\ UNCHANGED <<ty, build, args, pc>>

\* `*el == 0u8` is true: the body of the while loop is entered
NonZeroEnterLoop ==
    /\ pc = "while"
    /\ ret.i <= Len(ret.data)
    /\ ret.data[ret.i] = 0
    /\ pc' = "fill_bytes"
    /\ UNCHANGED <<ty, build, args, ret>>

\* rng.fill_bytes(core::slice::from_mut(el)): the element is redrawn and the
\* test of the while loop is next
NonZeroResample ==
    /\ pc = "fill_bytes"
    /\ pc' = "while"
    /\ LET f == fill_bytes(ret.rng, 1)
       IN  ret' = [ret EXCEPT !.data[ret.i] = f.bytes[1], !.rng = rng_position(f.rng)]
    /\ UNCHANGED <<ty, build, args>>

\* after the for loop: the separator and the message are written and the
\* call returns Ok(em)
EncryptPadReturn ==
    /\ pc = "while"
    /\ ret.i > Len(ret.data)
    /\ pc' = "done"
    /\ LET em == <<0, 2>> \o ret.data \o <<0>> \o args.msg
       IN  ret' = [res |-> Ok(em), storage |-> WithPrefix(args.storage, em)]
    /\ UNCHANGED <<ty, build, args>>

NextEncryptPadSteps ==
    \/ EncryptPadEnter
    \/ NonZeroAdvance
    \/ NonZeroEnterLoop
    \/ NonZeroResample
    \/ EncryptPadReturn

\* a call that has started keeps running: every step that can be taken is
\* taken in the end
SpecEncryptPadSteps ==
    InitEncryptPad /\ [][NextEncryptPadSteps]_vars /\ WF_vars(NextEncryptPadSteps)

\* the call has ended with the outcome, and the storage, of pkcs1v15_encrypt_pad
EncryptPadStepsAgree ==
    (pc = "done") =>
        LET whole == pkcs1v15_encrypt_pad(args.rng, args.msg, args.k, args.storage)
        IN  ret.res = whole.res /\ ret.storage = whole.storage

\* C29: pkcs1v15_encrypt_pad terminates for every generator, a generator
\* that yields only zero bytes included: the loop that redraws a zero padding
\* byte is bounded.
C29_EncryptPadTerminates == <>(pc = "done")

\* with a generator that yields a non-zero byte the call terminates
C29_TerminatesWhenRngYields ==
    (~OnlyZeros(args.rng)) => <>(pc = "done")

\* and then every padding byte it returns is non-zero
C29_PaddingNonZero ==
    (pc = "done" /\ ret.res.kind = "Ok") =>
        \A i \in 3..(args.k - Len(args.msg) - 1) : ret.res.v[i] # 0

\* with a generator of zero bytes a call that reaches the while loop on a
\* padding byte stays in it
C29_ZeroRngStaysInLoop ==
    [][(pc \in {"while", "fill_bytes"} /\ OnlyZeros(args.rng)
            /\ ret.i <= Len(ret.data)) =>
          (pc' \in {"while", "fill_bytes"} /\ ret'.i = ret.i /\ ret'.data = ret.data)]_vars

(***************************************************************************)
(* pkcs1v15.rs: what encrypt leaves in the caller's storage                *)
(***************************************************************************)
\* the key passed check_public and pkcs1v15_encrypt_pad returned Ok(em)
EncryptPaddingSucceeded ==
    /\ check_public(args.pub_key.n, args.pub_key.e) = Ok(<<>>)
    /\ pkcs1v15_encrypt_pad(args.rng, args.msg, size(args.pub_key.n),
                            args.storage).res.kind = "Ok"

\* C30: when encrypt returns after the padding succeeded, with Ok or with an
\* error of the final byte conversion, the storage holds no byte of the
\* padded message: it was zeroed as a whole, at most its first k bytes were
\* then overwritten with the ciphertext, and every byte at index >= k is 0.
C30_StorageHoldsNoPaddedMessage ==
    (pc = "encrypt" /\ EncryptPaddingSucceeded /\ ret.res.kind \in {"Ok", "Err"}) =>
        LET k == size(args.pub_key.n)
        IN  /\ Len(ret.storage) = Len(args.storage)
            /\ \A i \in (k + 1)..Len(ret.storage) : ret.storage[i] = 0
            /\ ret.res.kind = "Ok" =>
                  /\ SubSeq(ret.storage, 1, k) = ret.res.v
                  /\ EncryptedPadded
            /\ ret.res.kind = "Err" =>
                  \A i \in 1..Len(ret.storage) : ret.storage[i] = 0

\* a storage longer than k that held non-zero bytes before the call
C30_Witness ==
    /\ pc = "encrypt"
    /\ EncryptPaddingSucceeded
    /\ ret.res.kind = "Ok"
    /\ Len(args.storage) > size(args.pub_key.n)
    /\ \A i \in 1..Len(args.storage) : args.storage[i] # 0
    /\ \A i \in (size(args.pub_key.n) + 1)..Len(ret.storage) : ret.storage[i] = 0
    /\ SubSeq(ret.storage, 1, size(args.pub_key.n)) = ret.res.v

====
